---- MODULE Spec2Model ----
(***************************************************************************)
(* The moderation pipeline of ai-guardrail-azure-mvp as a state machine:   *)
(*   - check_guardrail (src/src/core/rag_core.py), the classifier;          *)
(*   - stream_and_filter_response (src/src/utils/streaming_utils.py), the  *)
(*     generator that buffers an LLM stream and classifies it in windows.  *)
(* Text is a sequence of one-character strings.  A Python dict is a        *)
(* function from its keys (strings) to its values.                         *)
(***************************************************************************)
EXTENDS Integers, Sequences, FiniteSets, TLC

VARIABLES
    \* ---- stream_and_filter_response: configuration and locals
    INITIAL_BUFFER_SIZE,      \* module constant read from the configuration
    SUBSEQUENT_BUFFER_SIZE,   \* module constant read from the configuration
    pc,                       \* where the generator stands
    buffer,
    text_to_check,            \* the window cut from the buffer last (unset: empty)
    is_first_chunk,
    current_buffer_size,
    total_elapsed_time,
    all_source_documents,
    all_source_files,
    guardrail_result,         \* the dict the last check_guardrail call returned
    events,                   \* what the generator has yielded, in order
    \* ---- the upstream iterator llm_stream and the classifier, as observed
    consumed,                 \* concatenation of the fragments pulled so far
    pulls,                    \* number of fragments pulled so far
    upstream,                 \* "open", "ended" (StopIteration) or "raised"
    calls,                    \* one record per check_guardrail call of the run:
                              \* the window, whether it is the remainder at the
                              \* end of the stream, whether it came back HARMFUL
    returned,                 \* what the check_guardrail calls of the run have
                              \* returned, taken together: the sum of their
                              \* elapsed_time, their source_documents one list
                              \* after the other, the set of the names that
                              \* iterating their source_files yields, and
                              \* the set of the file names they cite
    \* ---- a stand-alone check_guardrail call
    cg_pc,
    cg_input,
    cg_outcome,
    \* ---- a stand-alone format_source_documents call
    fmt_pc,
    fmt_input,
    fmt_outcome,
    \* ---- a stand-alone limit_docs_with_metadata call
    lim_pc,
    lim_input,
    lim_result,
    \* ---- main() of the chat page: the session and the locals of a run
    main_pc,                  \* where the script stands
    show_diagnostics,         \* the checkbox of the side bar
    input_check,              \* the dict check_guardrail returned for the input
    formatted_input_docs,     \* what the input diagnostics panel lists
    messages,                 \* st.session_state["messages"], the chat history
    llm_stream,               \* whether llm.stream(...) was called
    full_response,
    is_blocked,
    output_diagnostics,       \* None, or the payload of DIAGNOSTICS
    received,                 \* events of the generator the loop has handled
    formatted_output_docs,    \* what the output diagnostics panel lists
    script_runs,              \* runs of main() after the first
    \* ---- two generators of stream_and_filter_response in one process
    run,                      \* the generator whose locals the variables above
                              \* hold: 1, or 2 when a second one exists
    suspended,                \* the locals of the other generator
    script,                   \* what each generator's upstream delivers
    solo                      \* the locals each generator ended with when it
                              \* ran over its script alone

streamVars == <<INITIAL_BUFFER_SIZE, SUBSEQUENT_BUFFER_SIZE, pc, buffer,
                text_to_check, is_first_chunk, current_buffer_size, total_elapsed_time,
                all_source_documents, all_source_files, guardrail_result,
                events, consumed, pulls, upstream, calls, returned>>

classifyVars == <<cg_pc, cg_input, cg_outcome>>

formatVars == <<fmt_pc, fmt_input, fmt_outcome>>

limitVars == <<lim_pc, lim_input, lim_result>>

mainVars == <<main_pc, show_diagnostics, input_check, formatted_input_docs, messages, llm_stream,
             full_response, is_blocked, output_diagnostics, received,
             formatted_output_docs, script_runs>>

twoVars == <<run, suspended, script, solo>>

vars == <<streamVars, classifyVars, formatVars, limitVars, mainVars, twoVars>>

(***************************************************************************)
(* Bounds of the model.                                                    *)
(***************************************************************************)
MaxThreshold == 3     \* thresholds range over 1..MaxThreshold
MaxFragLen == 3       \* a fragment holds 0..MaxFragLen characters
MaxFrags == 3         \* fragments pulled in one run
MaxText == 4          \* characters of upstream text in one run
MaxDocuments == 3     \* documents handed to format_source_documents
MaxRanked == 3        \* documents handed to limit_docs_with_metadata
MaxRepeated == 26     \* ... or that many short documents
MaxBudget == 45       \* max_tokens
MaxScriptRuns == 2    \* runs of main() in one session

(***************************************************************************)
(* Python helpers.                                                         *)
(***************************************************************************)
Min(a, b) == IF a <= b THEN a ELSE b
Max(a, b) == IF a >= b THEN a ELSE b

\* s[:n] for n >= 0
Take(s, n) == SubSeq(s, 1, Min(n, Len(s)))

\* A slip in the slice: s[n+1:], which skips a character.
DropSkipsOne(s, n) == SubSeq(s, Min(n + 1, Len(s)) + 1, Len(s))

\* s[n:] for n >= 0
Drop(s, n) == SubSeq(s, Min(n, Len(s)) + 1, Len(s))

\* d.get(k, default)
DictGet(d, k, default) == IF k \in DOMAIN d THEN d[k] ELSE default

\* d[k] = v
DictSet(d, k, v) == [x \in (DOMAIN d) \cup {k} |-> IF x = k THEN v ELSE d[x]]

\* the elements of a sequence
Range(s) == {s[i] : i \in DOMAIN s}

\* list(a_set): the elements once each, in an order Python does not specify
ListsOf(S) == {s \in [1..Cardinality(S) -> S] : Range(s) = S}

(***************************************************************************)
(* The classifier's collaborators.  A call either raises an exception or   *)
(* returns a value; an exception is its class name and its message.  A     *)
(* message string is the sequence of the pieces it is formatted from (one  *)
(* piece for a literal).                                                   *)
(***************************************************************************)
NoException == [type |-> "", msg |-> ""]

\* retriever.invoke(text): the ranked documents, or an exception
RetrievalOutcomes ==
    {[raises |-> TRUE, exc |-> [type |-> "HttpResponseError", msg |-> "search unavailable"], docs |-> <<>>]}
    \cup {[raises |-> FALSE, exc |-> NoException, docs |-> ds] :
            ds \in {<<>>, <<"doc_a">>, <<"doc_b", "doc_a">>}}

\* Texts the generation service may answer with.
AnswerSafe == "{\"decision\": \"SAFE\", \"reason\": \"no policy violated\", \"source_files\": [\"policy_a.txt\"]}"
AnswerHarmful == "{\"decision\": \"HARMFUL\", \"reason\": \"policy 2.2\", \"source_files\": [\"policy_b.txt\"]}"
AnswerHarmfulBare == "{\"decision\": \"HARMFUL\"}"
AnswerCannotDetermine == "{\"decision\": \"CANNOT_DETERMINE\", \"reason\": \"insufficient context\"}"
AnswerUnknownDecision == "{\"decision\": \"MAYBE\", \"reason\": \"unsure\", \"source_files\": []}"
AnswerEmptyObject == "{}"
AnswerForged == "{\"decision\": \"SAFE\", \"reason\": \"ok\", \"source_files\": [], \"elapsed_time\": 99, \"source_documents\": [\"forged\"]}"
AnswerProse == "I cannot answer that."
AnswerTruncated == "{\"decision\": \"SAFE\", \"reason\": "
AnswerList == "[\"SAFE\"]"
AnswerNull == "null"
\* Answers whose source_files is no list of file names: a number, a list that
\* holds an object before a name, and a bare file name.
AnswerFilesNumber == "{\"decision\": \"SAFE\", \"reason\": \"ok\", \"source_files\": 7}"
AnswerFilesObject == "{\"decision\": \"HARMFUL\", \"reason\": \"policy 2.2\", \"source_files\": [{\"file\": \"policy_b.txt\"}, \"policy_b.txt\"]}"
AnswerFilesString == "{\"decision\": \"HARMFUL\", \"reason\": \"policy 2.2\", \"source_files\": \"ab\"}"

AnswerStrs == {AnswerSafe, AnswerHarmful, AnswerHarmfulBare, AnswerCannotDetermine,
               AnswerUnknownDecision, AnswerEmptyObject, AnswerForged, AnswerProse,
               AnswerTruncated, AnswerList, AnswerNull,
               AnswerFilesNumber, AnswerFilesObject, AnswerFilesString}

\* (prompt | llm | output_parser).invoke(...): the answer text, or an exception
GenerationOutcomes ==
    {[raises |-> TRUE, exc |-> e, text |-> ""] :
        e \in {[type |-> "APITimeoutError", msg |-> "Request timed out."],
               [type |-> "APIConnectionError", msg |-> "Connection error."]}}
    \cup {[raises |-> FALSE, exc |-> NoException, text |-> a] : a \in AnswerStrs}

\* time.time() - start_time, in clock ticks
ElapsedTimes == {1, 2}

\* The classes under Exception (KeyboardInterrupt, SystemExit and GeneratorExit
\* are not).
ExceptionClasses == {"HttpResponseError", "APITimeoutError", "APIConnectionError",
                     "JSONDecodeError", "TypeError", "StreamError"}

EmptyDict == [k \in {} |-> ""]

\* The Python value json.loads gives for the JSON value under "source_files":
\* py_type is its type, text what it reads as when it is a scalar, items what
\* iterating it yields, one after the other (the elements of a list, the
\* characters of a str).  An element is its type and its text.
PyStr(text) == [py_type |-> "str", text |-> text]
PyDict == [py_type |-> "dict", text |-> ""]
PyList(items) == [py_type |-> "list", text |-> "", items |-> items]
PyNames(names) == PyList([i \in DOMAIN names |-> PyStr(names[i])])
PyInt(text) == [py_type |-> "int", text |-> text, items |-> <<>>]
PyString(text, chars) ==
    [py_type |-> "str", text |-> text, items |-> [i \in DOMAIN chars |-> PyStr(chars[i])]]

\* bool(value): an empty list, an empty str and 0 are false.
PyTruthy(value) ==
    IF value.py_type = "int" THEN value.text # "0" ELSE value.items # <<>>

\* json.loads(answer_str) on the texts above: the value, or JSONDecodeError.
\* kind is the Python type of the value.
json_loads(s) ==
    CASE s = AnswerSafe ->
            [raises |-> FALSE, kind |-> "dict",
             value |-> [decision |-> "SAFE", reason |-> <<"no policy violated">>,
                        source_files |-> PyNames(<<"policy_a.txt">>)]]
      [] s = AnswerHarmful ->
            [raises |-> FALSE, kind |-> "dict",
             value |-> [decision |-> "HARMFUL", reason |-> <<"policy 2.2">>,
                        source_files |-> PyNames(<<"policy_b.txt">>)]]
      [] s = AnswerHarmfulBare ->
            [raises |-> FALSE, kind |-> "dict", value |-> [decision |-> "HARMFUL"]]
      [] s = AnswerCannotDetermine ->
            [raises |-> FALSE, kind |-> "dict",
             value |-> [decision |-> "CANNOT_DETERMINE", reason |-> <<"insufficient context">>]]
      [] s = AnswerUnknownDecision ->
            [raises |-> FALSE, kind |-> "dict",
             value |-> [decision |-> "MAYBE", reason |-> <<"unsure">>,
                        source_files |-> PyNames(<<>>)]]
      [] s = AnswerEmptyObject ->
            [raises |-> FALSE, kind |-> "dict", value |-> EmptyDict]
      [] s = AnswerForged ->
            [raises |-> FALSE, kind |-> "dict",
             value |-> [decision |-> "SAFE", reason |-> <<"ok">>,
                        source_files |-> PyNames(<<>>),
                        elapsed_time |-> 99, source_documents |-> <<"forged">>]]
      [] s = AnswerFilesNumber ->
            [raises |-> FALSE, kind |-> "dict",
             value |-> [decision |-> "SAFE", reason |-> <<"ok">>,
                        source_files |-> PyInt("7")]]
      [] s = AnswerFilesObject ->
            [raises |-> FALSE, kind |-> "dict",
             value |-> [decision |-> "HARMFUL", reason |-> <<"policy 2.2">>,
                        source_files |-> PyList(<<PyDict, PyStr("policy_b.txt")>>)]]
      [] s = AnswerFilesString ->
            [raises |-> FALSE, kind |-> "dict",
             value |-> [decision |-> "HARMFUL", reason |-> <<"policy 2.2">>,
                        source_files |-> PyString("ab", <<"a", "b">>)]]
      [] s = AnswerList ->
            [raises |-> FALSE, kind |-> "list", value |-> EmptyDict]
      [] s = AnswerNull ->
            [raises |-> FALSE, kind |-> "NoneType", value |-> EmptyDict]
      [] OTHER ->
            [raises |-> TRUE, kind |-> "", value |-> EmptyDict]

(***************************************************************************)
(* check_guardrail.                                                        *)
(***************************************************************************)
\* What limit_docs_with_metadata returns under "documents": the input list.
LimitedDocuments(docs) == IF docs = <<>> THEN <<>> ELSE docs

Returned(v) == [raised |-> FALSE, exc |-> NoException, value |-> v]
Raised(e) == [raised |-> TRUE, exc |-> e, value |-> EmptyDict]

\* The try block: retrieval, budgeting, generation, parsing, and the two item
\* assignments on the parsed value.
GuardrailTry(text_to_evaluate, retrieval, generation, elapsed) ==
    IF retrieval.raises THEN Raised(retrieval.exc)
    ELSE IF generation.raises THEN Raised(generation.exc)
    ELSE LET response_json == json_loads(generation.text) IN
         IF response_json.raises
           THEN Raised([type |-> "JSONDecodeError", msg |-> "Expecting value"])
         ELSE IF response_json.kind # "dict"
           THEN Raised([type |-> "TypeError",
                        msg |-> IF response_json.kind = "list"
                                  THEN "list indices must be integers or slices, not str"
                                  ELSE "'NoneType' object does not support item assignment"])
         ELSE Returned(DictSet(DictSet(response_json.value, "elapsed_time", elapsed),
                               "source_documents", LimitedDocuments(retrieval.docs)))

\* A slip: only the JSON parse failure is caught.
GuardrailExceptJsonOnly(attempt, elapsed) ==
    IF ~attempt.raised THEN attempt
    ELSE IF attempt.exc.type = "JSONDecodeError"
      THEN Returned([decision |-> "ERROR",
                     reason |-> <<"Failed to parse LLM response as JSON.">>,
                     elapsed_time |-> elapsed,
                     source_documents |-> <<>>])
    ELSE attempt

\* The except clauses, in order.
GuardrailExcept(attempt, elapsed) ==
    IF ~attempt.raised THEN attempt
    ELSE IF attempt.exc.type = "JSONDecodeError"
      THEN Returned([decision |-> "ERROR",
                     reason |-> <<"Failed to parse LLM response as JSON.">>,
                     elapsed_time |-> elapsed,
                     source_documents |-> <<>>])
    ELSE IF attempt.exc.type \in ExceptionClasses
      THEN Returned([decision |-> "ERROR",
                     reason |-> <<"An unexpected error occurred: ", attempt.exc.msg>>,
                     elapsed_time |-> elapsed,
                     source_documents |-> <<>>])
    ELSE attempt

check_guardrail(text_to_evaluate, retrieval, generation, elapsed) ==
    GuardrailExcept(GuardrailTry(text_to_evaluate, retrieval, generation, elapsed), elapsed)

(***************************************************************************)
(* stream_and_filter_response.                                             *)
(***************************************************************************)
\* The upstream reply: the stream filter only measures and slices text, so a
\* character is identified by its position in the reply.
UpstreamChars == <<"a", "b", "c", "d", "e", "f", "g", "h", "i", "j", "k", "l">>

\* The reply a second generator of the process reads.  NextFragment is the
\* fragment of n characters that follows what was consumed so far.
OtherUpstreamChars == <<"m", "n", "o", "p", "q", "r", "s", "t", "u", "v", "w", "x">>

NextFragment(n) ==
    SubSeq(IF run = 2 THEN OtherUpstreamChars ELSE UpstreamChars,
           Len(consumed) + 1, Len(consumed) + n)

\* Collaborator behaviours the classifier meets inside a stream run.
StreamRetrievals ==
    {r \in RetrievalOutcomes : r.raises \/ r.docs \in {<<"doc_a">>, <<"doc_b", "doc_a">>}}
StreamGenerations ==
    {g \in GenerationOutcomes :
        \/ g.raises /\ g.exc.type = "APITimeoutError"
        \/ ~g.raises /\ g.text \in {AnswerSafe, AnswerHarmful, AnswerHarmfulBare,
                                    AnswerCannotDetermine, AnswerProse,
                                    AnswerFilesNumber, AnswerFilesObject,
                                    AnswerFilesString}}

Event(tag, payload) == [tag |-> tag, payload |-> payload]

\* The two formatted messages: a fixed notice (written here in ASCII) followed
\* by the reason, or by str(e).
BlockedMessage(reason) == <<"[content blocked by policy] reason: ">> \o reason
ErrorMessage(exc) == <<"[error while streaming] ", exc.msg>>

\* The dict yielded with DIAGNOSTICS; files is list(all_source_files).
Diagnostics(files) ==
    [elapsed_time |-> total_elapsed_time,
     source_documents |-> all_source_documents,
     source_files |-> files]

\* The accumulation of one check_guardrail result.
MergedElapsed(result) == total_elapsed_time + DictGet(result, "elapsed_time", 0)
MergedDocuments(result) == all_source_documents \o DictGet(result, "source_documents", <<>>)

\* a_set.update(iterable): the elements are added one after the other, so that
\* those before an unhashable one stay in the set when TypeError is raised;
\* a value that cannot be iterated raises TypeError at once.  value is the
\* set afterwards.
SetUpdate(a_set, iterable) ==
    IF iterable.py_type \notin {"list", "str"}
      THEN [raised |-> TRUE,
            exc |-> [type |-> "TypeError", msg |-> "'int' object is not iterable"],
            value |-> a_set]
    ELSE LET items == iterable.items
             unhashable == {i \in DOMAIN items : items[i].py_type = "dict"}
             added == {i \in DOMAIN items : \A j \in unhashable : i < j}
         IN [raised |-> unhashable # {},
             exc |-> IF unhashable # {}
                       THEN [type |-> "TypeError", msg |-> "unhashable type: 'dict'"]
                       ELSE NoException,
             value |-> a_set \cup {items[i].text : i \in added}]

\* Lines 42-44 and 69-71: source_files is whatever the answer held under that
\* key; when it is truthy the set is updated with it, which may raise.
MergedFiles(result) ==
    LET source_files == DictGet(result, "source_files", PyList(<<>>)) IN
    IF PyTruthy(source_files) THEN SetUpdate(all_source_files, source_files)
    ELSE [raised |-> FALSE, exc |-> NoException, value |-> all_source_files]

\* What one check_guardrail result holds under source_files, for the history
\* kept in returned: the names that iterating it yields, and the file names
\* it cites (a bare str cites one file, a number none).
IteratedNames(result) ==
    IF "source_files" \notin DOMAIN result THEN {}
    ELSE LET items == result["source_files"].items
         IN {items[i].text : i \in {j \in DOMAIN items : items[j].py_type = "str"}}
CitedNames(result) ==
    IF "source_files" \notin DOMAIN result THEN {}
    ELSE IF result["source_files"].py_type = "str" THEN {result["source_files"].text}
    ELSE IteratedNames(result)

\* A slip: an ERROR verdict blocks as a HARMFUL one does.
IsHarmfulOrError(result) == DictGet(result, "decision", "") \in {"HARMFUL", "ERROR"}

IsHarmful(result) == DictGet(result, "decision", "") = "HARMFUL"

\* A slip: the two sizes the wrong way round.
ChosenBufferSizeSwapped ==
    IF is_first_chunk THEN SUBSEQUENT_BUFFER_SIZE ELSE INITIAL_BUFFER_SIZE

\* The threshold chosen when a fragment arrives (line 29).
ChosenBufferSize == IF is_first_chunk THEN INITIAL_BUFFER_SIZE ELSE SUBSEQUENT_BUFFER_SIZE

othersUnchanged == UNCHANGED <<classifyVars, formatVars, limitVars, mainVars, twoVars>>
configUnchanged == UNCHANGED <<INITIAL_BUFFER_SIZE, SUBSEQUENT_BUFFER_SIZE>>

\* for chunk in llm_stream: the next fragment arrives and is appended.
PullFragment ==
    /\ pc = "pull" /\ upstream = "open" /\ pulls < MaxFrags
    /\ \E n \in 0..MaxFragLen :
          /\ Len(consumed) + n <= MaxText
          /\ buffer' = buffer \o NextFragment(n)
          /\ consumed' = consumed \o NextFragment(n)
    /\ pulls' = pulls + 1
    /\ current_buffer_size' = ChosenBufferSize
    /\ pc' = "while"
    /\ UNCHANGED <<is_first_chunk, total_elapsed_time, all_source_documents,
                   all_source_files, guardrail_result, events, upstream, calls, returned>>
    /\ UNCHANGED text_to_check
    /\ configUnchanged /\ othersUnchanged

\* for chunk in llm_stream: the upstream is exhausted.
UpstreamEnds ==
    /\ pc = "pull" /\ upstream = "open"
    /\ upstream' = "ended"
    /\ pc' = "tail"
    /\ UNCHANGED <<buffer, is_first_chunk, current_buffer_size, total_elapsed_time,
                   all_source_documents, all_source_files, guardrail_result, events,
                   consumed, pulls, calls, returned>>
    /\ UNCHANGED text_to_check
    /\ configUnchanged /\ othersUnchanged

\* for chunk in llm_stream: the upstream raises; the except clause yields ERROR.
\* A slip: no except clause around the loop, the exception leaves the generator.
UpstreamRaisesUncaught ==
    /\ pc = "pull" /\ upstream = "open"
    /\ upstream' = "raised"
    /\ pc' = "done"
    /\ UNCHANGED <<buffer, is_first_chunk, current_buffer_size, total_elapsed_time,
                   all_source_documents, all_source_files, guardrail_result,
                   events, consumed, pulls, calls, returned>>
    /\ UNCHANGED text_to_check
    /\ configUnchanged /\ othersUnchanged

\* A slip: after the ERROR the text left in the buffer is still checked.
UpstreamRaisesThenFlushes ==
    /\ pc = "pull" /\ upstream = "open"
    /\ upstream' = "raised"
    /\ events' = Append(events, Event("ERROR",
                    ErrorMessage([type |-> "StreamError", msg |-> "stream broke"])))
    /\ pc' = "tail"
    /\ UNCHANGED <<buffer, is_first_chunk, current_buffer_size, total_elapsed_time,
                   all_source_documents, all_source_files, guardrail_result,
                   consumed, pulls, calls, returned>>
    /\ UNCHANGED text_to_check
    /\ configUnchanged /\ othersUnchanged

UpstreamRaises ==
    /\ pc = "pull" /\ upstream = "open"
    /\ upstream' = "raised"
    /\ events' = Append(events, Event("ERROR",
                    ErrorMessage([type |-> "StreamError", msg |-> "stream broke"])))
    /\ pc' = "except"
    /\ UNCHANGED <<buffer, is_first_chunk, current_buffer_size, total_elapsed_time,
                   all_source_documents, all_source_files, guardrail_result,
                   consumed, pulls, calls, returned>>
    /\ UNCHANGED text_to_check
    /\ configUnchanged /\ othersUnchanged

\* The test of the while loop (line 31).
WindowReady == Len(buffer) >= current_buffer_size

\* The while test is false: back to the for loop.
\* A slip: with too little text buffered the loop test is made again
\* instead of going back to the upstream.
WhileExitSpins ==
    /\ pc = "while"
    /\ ~WindowReady
    /\ pc' = "while"
    /\ UNCHANGED <<buffer, is_first_chunk, current_buffer_size, total_elapsed_time,
                   all_source_documents, all_source_files, guardrail_result, events,
                   consumed, pulls, upstream, calls, returned>>
    /\ UNCHANGED text_to_check
    /\ configUnchanged /\ othersUnchanged

WhileExit ==
    /\ pc = "while"
    /\ ~WindowReady
    /\ pc' = "pull"
    /\ UNCHANGED <<buffer, is_first_chunk, current_buffer_size, total_elapsed_time,
                   all_source_documents, all_source_files, guardrail_result, events,
                   consumed, pulls, upstream, calls, returned>>
    /\ UNCHANGED text_to_check
    /\ configUnchanged /\ othersUnchanged

\* Lines 35-57 and 64-83: check_guardrail returns for the window, its result is
\* accumulated (time, documents, then files), and BLOCKED or SAFE_CHUNK is
\* yielded.  When the update of the files raises (lines 44 and 71), time and
\* documents are already merged and the except clause of line 92 yields ERROR
\* in place of the BLOCKED or SAFE_CHUNK of the window.  check_guardrail lets
\* no Exception out.  final tells the call at the end of the stream from one
\* in the loop; blockedAt and safeAt are the yields at which the generator is
\* left suspended.
ClassifyAndYield(window, final, blockedAt, safeAt) ==
    \E retrieval \in StreamRetrievals, generation \in StreamGenerations,
       elapsed \in ElapsedTimes :
       \E result \in {check_guardrail(window, retrieval, generation, elapsed).value} :
       \E files \in {MergedFiles(result)} :
       /\ guardrail_result' = result
       /\ total_elapsed_time' = MergedElapsed(result)
       /\ all_source_documents' = MergedDocuments(result)
       /\ all_source_files' = files.value
       /\ calls' = Append(calls, [window |-> window,
                                  final |-> final, harmful |-> IsHarmful(result)])
       /\ returned' =
             [elapsed_time |-> returned.elapsed_time + result["elapsed_time"],
              source_documents |->
                  returned.source_documents \o result["source_documents"],
              source_files |-> returned.source_files \cup IteratedNames(result),
              cited_files |-> returned.cited_files \cup CitedNames(result)]
       /\ UNCHANGED is_first_chunk
       /\ IF files.raised
            THEN /\ events' = Append(events, Event("ERROR", ErrorMessage(files.exc)))
                 /\ pc' = "except"
            ELSE IF IsHarmful(result)
            THEN /\ events' = Append(events, Event("BLOCKED",
                        BlockedMessage(DictGet(result, "reason", <<"No reason provided.">>))))
                 /\ pc' = blockedAt
            ELSE /\ events' = Append(events, Event("SAFE_CHUNK", window))
                 /\ pc' = safeAt

\* Lines 31-33: the test of the while loop finds a full window, which is cut
\* from the buffer; check_guardrail is then called with it (line 35) and the
\* generator waits for the retrieval and the classification.
SliceWindow ==
    /\ pc = "while"
    /\ WindowReady
    /\ text_to_check' = Take(buffer, current_buffer_size)
    /\ buffer' = Drop(buffer, current_buffer_size)
    /\ pc' = "check"
    /\ UNCHANGED <<is_first_chunk, current_buffer_size, total_elapsed_time,
                   all_source_documents, all_source_files, guardrail_result, events,
                   consumed, pulls, upstream, calls, returned>>
    /\ configUnchanged /\ othersUnchanged

\* Lines 35-57: check_guardrail returns for the window cut at lines 32-33,
\* and the iteration goes on to its yield: the generator is left suspended
\* at blockedAt after a BLOCKED and at safeAt after a SAFE_CHUNK.
CheckWindowAt(blockedAt, safeAt) ==
    /\ pc = "check"
    /\ ClassifyAndYield(text_to_check, FALSE, blockedAt, safeAt)
    /\ UNCHANGED <<buffer, text_to_check, current_buffer_size, consumed, pulls, upstream>>
    /\ configUnchanged /\ othersUnchanged

\* A slip: an if for the while, one window at most for each fragment.
CheckWindowOnce == CheckWindowAt("blocked", "pull")

\* A slip: no return after the BLOCKED of the loop, which goes on.
CheckWindowNoReturn == CheckWindowAt("yielded", "yielded")

CheckWindow == CheckWindowAt("blocked", "yielded")

\* The generator is resumed at the yield of line 57: lines 59-60, then the
\* test of the while loop again.
AfterSafeChunk ==
    /\ pc = "yielded"
    /\ is_first_chunk' = FALSE
    /\ pc' = "while"
    /\ UNCHANGED <<buffer, current_buffer_size, total_elapsed_time,
                   all_source_documents, all_source_files, guardrail_result, events,
                   consumed, pulls, upstream, calls, returned>>
    /\ UNCHANGED text_to_check
    /\ configUnchanged /\ othersUnchanged

\* After the loop: the remaining buffer, if any, is classified whole (lines 63-83).
CheckRemainder ==
    /\ pc = "tail"
    /\ buffer # <<>>
    /\ ClassifyAndYield(buffer, TRUE, "blocked", "final")
    /\ UNCHANGED <<buffer, current_buffer_size, consumed, pulls, upstream>>
    /\ UNCHANGED text_to_check
    /\ configUnchanged /\ othersUnchanged

\* A slip: the except clause yields ERROR and nothing else.
YieldDiagnosticsNotOnError ==
    /\ \/ pc \in {"blocked", "final", "except"}
       \/ pc = "tail" /\ buffer = <<>>
    /\ IF pc = "except" THEN events' = events
       ELSE \E files \in ListsOf(all_source_files) :
               events' = Append(events, Event("DIAGNOSTICS", Diagnostics(files)))
    /\ pc' = "diagnostics"
    /\ UNCHANGED <<buffer, is_first_chunk, current_buffer_size, total_elapsed_time,
                   all_source_documents, all_source_files, guardrail_result,
                   consumed, pulls, upstream, calls, returned>>
    /\ UNCHANGED text_to_check
    /\ configUnchanged /\ othersUnchanged

\* The four yields of DIAGNOSTICS: after BLOCKED (lines 50, 76), at the end of a
\* stream (line 86) and after ERROR (line 95).  The generator is resumed at
\* the yield of BLOCKED, ERROR or the last SAFE_CHUNK, or comes from the loop
\* with an empty buffer, and is left suspended at the yield of DIAGNOSTICS.
YieldDiagnostics ==
    /\ \/ pc \in {"blocked", "final", "except"}
       \/ pc = "tail" /\ buffer = <<>>
    /\ \E files \in ListsOf(all_source_files) :
          events' = Append(events, Event("DIAGNOSTICS", Diagnostics(files)))
    /\ pc' = "diagnostics"
    /\ UNCHANGED <<buffer, is_first_chunk, current_buffer_size, total_elapsed_time,
                   all_source_documents, all_source_files, guardrail_result,
                   consumed, pulls, upstream, calls, returned>>
    /\ UNCHANGED text_to_check
    /\ configUnchanged /\ othersUnchanged

\* The generator is resumed at the yield of DIAGNOSTICS: the return of lines
\* 55 and 81, or the end of the function after lines 90 and 99.
Return ==
    /\ pc = "diagnostics"
    /\ pc' = "done"
    /\ UNCHANGED <<buffer, is_first_chunk, current_buffer_size, total_elapsed_time,
                   all_source_documents, all_source_files, guardrail_result, events,
                   consumed, pulls, upstream, calls, returned>>
    /\ UNCHANGED text_to_check
    /\ configUnchanged /\ othersUnchanged

ClassifyIdle ==
    /\ cg_pc = "idle"
    /\ cg_input = <<>>
    /\ cg_outcome = <<>>

FormatIdle ==
    /\ fmt_pc = "idle"
    /\ fmt_input = <<>>
    /\ fmt_outcome = <<>>

LimitIdle ==
    /\ lim_pc = "idle"
    /\ lim_input = <<>>
    /\ lim_result = <<>>

\* There is one generator at most.
OneRun ==
    /\ run = 1
    /\ suspended = <<>>
    /\ script = <<>>
    /\ solo = <<>>

\* No input of the client is being handled.
MainIdle ==
    /\ main_pc = "idle"
    /\ show_diagnostics = FALSE
    /\ input_check = <<>>
    /\ formatted_input_docs = <<>>
    /\ messages = <<>>
    /\ llm_stream = FALSE
    /\ full_response = <<>>
    /\ is_blocked = FALSE
    /\ output_diagnostics = <<>>
    /\ received = 0
    /\ formatted_output_docs = <<>>
    /\ script_runs = 0

\* The locals of stream_and_filter_response at its first resumption (lines 18-24).
StreamStart ==
    /\ pc = "pull"
    /\ buffer = <<>>
    /\ text_to_check = <<>>
    /\ is_first_chunk = TRUE
    /\ current_buffer_size = 0
    /\ total_elapsed_time = 0
    /\ all_source_documents = <<>>
    /\ all_source_files = {}
    /\ guardrail_result = EmptyDict
    /\ events = <<>>
    /\ consumed = <<>>
    /\ pulls = 0
    /\ upstream = "open"
    /\ calls = <<>>
    /\ returned = [elapsed_time |-> 0, source_documents |-> <<>>, source_files |-> {},
                  cited_files |-> {}]

Init ==
    /\ INITIAL_BUFFER_SIZE \in 1..MaxThreshold
    /\ SUBSEQUENT_BUFFER_SIZE \in 1..MaxThreshold
    /\ StreamStart
    /\ ClassifyIdle
    /\ FormatIdle
    /\ LimitIdle
    /\ MainIdle
    /\ OneRun

Next ==
    \/ PullFragment
    \/ UpstreamEnds
    \/ UpstreamRaises
    \/ WhileExit
    \/ SliceWindow
    \/ CheckWindow
    \/ CheckRemainder
    \/ YieldDiagnostics
    \/ AfterSafeChunk
    \/ Return

Spec == Init /\ [][Next]_vars

\* The generator is not running: it was not yet started, or it is suspended at
\* one of its yields (lines 57, 48 and 75, 83, 93, and the four of DIAGNOSTICS).
Suspended ==
    \/ pc = "pull" /\ pulls = 0
    \/ pc \in {"yielded", "blocked", "final", "except", "diagnostics"}

\* The consumer stops iterating (the break of app.py line 339, or the generator
\* object being closed or dropped): GeneratorExit is raised at the yield where
\* the generator stands; it is no Exception, so the except clause of line 92
\* lets it pass and the generator ends.  No statement of the function, no
\* finally clause and no statement of the caller closes llm_chunks_stream.
Cancel ==
    /\ Suspended
    /\ pc' = "cancelled"
    /\ UNCHANGED <<buffer, is_first_chunk, current_buffer_size, total_elapsed_time,
                   all_source_documents, all_source_files, guardrail_result, events,
                   consumed, pulls, upstream, calls, returned>>
    /\ UNCHANGED text_to_check
    /\ configUnchanged /\ othersUnchanged

CancelNext == Next \/ Cancel

\* Runs whose consumer may stop at any point.
CancelSpec == Init /\ [][CancelNext]_vars

\* The consumer of app.py has received BLOCKED or ERROR (lines 332-334 and
\* 340-344 set is_blocked).
ConsumerBlocked == \E i \in DOMAIN events : events[i].tag \in {"BLOCKED", "ERROR"}

\* next() of the for loop of app.py line 325: the generator runs on.  The
\* loop does not come back to line 325 from DIAGNOSTICS once is_blocked is
\* set.
Resumed ==
    /\ ~(pc = "diagnostics" /\ ConsumerBlocked)
    /\ Next

\* The break of app.py line 339, at DIAGNOSTICS with is_blocked set: the
\* generator is closed at that yield.
Break ==
    /\ pc = "diagnostics" /\ ConsumerBlocked
    /\ Cancel

ConsumedNext == Resumed \/ Break

\* A run consumed by the for loop of app.py lines 325-345: the loop calls
\* next() until the generator returns or the loop breaks, so a step that
\* can be taken is taken.
FairSpec == Init /\ [][ConsumedNext]_vars /\ WF_vars(ConsumedNext)

(***************************************************************************)
(* A stand-alone check_guardrail call (the input check of the chat page    *)
(* and the test script call it this way), over every behaviour of its      *)
(* collaborators.                                                          *)
(***************************************************************************)
ClassifyTexts == {<<"a">>, <<"a", "b">>}

CallGuardrail ==
    /\ cg_pc = "idle"
    /\ \E text \in ClassifyTexts, retrieval \in RetrievalOutcomes,
          generation \in GenerationOutcomes, elapsed \in ElapsedTimes :
          /\ cg_input' = [text |-> text, retrieval |-> retrieval,
                          generation |-> generation, elapsed |-> elapsed]
          /\ cg_outcome' = check_guardrail(text, retrieval, generation, elapsed)
          /\ cg_pc' = IF cg_outcome'.raised THEN "raised" ELSE "returned"
    /\ UNCHANGED <<streamVars, formatVars, limitVars, mainVars, twoVars>>

ClassifyInit ==
    /\ INITIAL_BUFFER_SIZE = 1
    /\ SUBSEQUENT_BUFFER_SIZE = 1
    /\ StreamStart
    /\ ClassifyIdle
    /\ FormatIdle
    /\ LimitIdle
    /\ MainIdle
    /\ OneRun

ClassifyNext == CallGuardrail

ClassifySpec == ClassifyInit /\ [][ClassifyNext]_vars

(***************************************************************************)
(* format_source_documents (src/web/app.py).  A str is a sequence of its   *)
(* characters, each a one-character string; a character outside ASCII is   *)
(* written by its code point, "U+BA54".  None or a value is a sequence of  *)
(* no or one element.                                                      *)
(***************************************************************************)
None == <<>>
Some(v) == <<v>>

Digits == {"0", "1", "2", "3", "4", "5", "6", "7", "8", "9"}
LowerLetters == <<"a", "b", "c", "d", "e", "f", "g", "h", "i", "j", "k", "l", "m",
                  "n", "o", "p", "q", "r", "s", "t", "u", "v", "w", "x", "y", "z">>
UpperLetters == <<"A", "B", "C", "D", "E", "F", "G", "H", "I", "J", "K", "L", "M",
                  "N", "O", "P", "Q", "R", "S", "T", "U", "V", "W", "X", "Y", "Z">>
\* The syllables of U+AC00..U+D7A3 that the literals of the function hold.
HangulSyllables == {"U+CD9C", "U+CC98", "U+BD88", "U+BA85", "U+BA54", "U+D0C0",
                    "U+B370", "U+C774", "U+D130", "U+C5C6", "U+C74C", "U+D30C",
                    "U+C2F1", "U+C2E4", "U+D328"}
Whitespace == {" ", "\n", "\t"}

\* str.lower() of one character.
Lower(c) ==
    IF \E i \in DOMAIN UpperLetters : UpperLetters[i] = c
      THEN LowerLetters[CHOOSE i \in DOMAIN UpperLetters : UpperLetters[i] = c]
      ELSE c

\* s.find(c): the first index of c in s, 0 when there is none.
Find(s, c) ==
    IF \E i \in DOMAIN s : s[i] = c
      THEN CHOOSE i \in DOMAIN s : s[i] = c /\ \A j \in 1..(i - 1) : s[j] # c
      ELSE 0

\* s.rfind(c): the last index of c in s, 0 when there is none.
RFind(s, c) ==
    IF \E i \in DOMAIN s : s[i] = c
      THEN CHOOSE i \in DOMAIN s : s[i] = c /\ \A j \in (i + 1)..Len(s) : s[j] # c
      ELSE 0

StartsWith(s, prefix) == Len(s) >= Len(prefix) /\ Take(s, Len(prefix)) = prefix

\* s.replace(old, new) for single characters.
Replace(s, old, new) == [i \in DOMAIN s |-> IF s[i] = old THEN new ELSE s[i]]

\* s.strip(): leading and trailing whitespace removed.
RECURSIVE LStrip(_)
LStrip(s) == IF s # <<>> /\ s[1] \in Whitespace THEN LStrip(Tail(s)) ELSE s
RECURSIVE RStrip(_)
RStrip(s) ==
    IF s # <<>> /\ s[Len(s)] \in Whitespace THEN RStrip(Take(s, Len(s) - 1)) ELSE s
Strip(s) == RStrip(LStrip(s))

\* os.path.splitext(p)[0]: p up to its last dot, when that dot comes after
\* the last "/" and after a character of the last component that is no dot.
SplitextRoot(p) ==
    LET sepIndex == RFind(p, "/")
        dotIndex == RFind(p, ".")
    IN IF dotIndex > sepIndex /\ \E i \in (sepIndex + 1)..(dotIndex - 1) : p[i] # "."
         THEN Take(p, dotIndex - 1)
         ELSE p

\* os.path.basename(p): what follows the last "/".
Basename(p) == Drop(p, RFind(p, "/"))

\* urllib.parse.unquote(s): every %xx replaced by the character it encodes.
PercentEncoded == [code \in {<<"2", "0">>, <<"2", "8">>, <<"2", "9">>} |->
                      CASE code = <<"2", "0">> -> " "
                        [] code = <<"2", "8">> -> "("
                        [] code = <<"2", "9">> -> ")"]
RECURSIVE Unquote(_)
Unquote(s) ==
    IF s = <<>> THEN <<>>
    ELSE IF s[1] = "%" /\ Len(s) >= 3 /\ <<s[2], s[3]>> \in DOMAIN PercentEncoded
      THEN <<PercentEncoded[<<s[2], s[3]>>]>> \o Unquote(Drop(s, 3))
      ELSE <<s[1]>> \o Unquote(Tail(s))

\* urllib.parse.urlparse(url).path: the url without its scheme, its network
\* location, its fragment and its query.
WithoutScheme(url) ==
    LET colon == Find(url, ":") IN
    IF colon > 1 /\ \A i \in 1..(colon - 1) :
                       url[i] \in Range(LowerLetters) \cup Range(UpperLetters)
      THEN Drop(url, colon) ELSE url

WithoutNetloc(url) ==
    IF StartsWith(url, <<"/", "/">>)
      THEN LET stops == {i \in 3..Len(url) : url[i] \in {"/", "?", "#"}} IN
           IF stops = {} THEN <<>>
           ELSE Drop(url, (CHOOSE i \in stops : \A j \in stops : i <= j) - 1)
      ELSE url

Before(s, c) == LET at == Find(s, c) IN IF at = 0 THEN s ELSE Take(s, at - 1)

UrlPath(url) == Before(Before(WithoutNetloc(WithoutScheme(url)), "#"), "?")
\* The three notices, written by code point: "source unknown", "no metadata" and
\* the suffix " (parsing failed)".
UnknownSource ==
    <<"U+CD9C", "U+CC98", " ", "U+BD88", "U+BA85">>

NoMetadata ==
    <<"U+BA54", "U+D0C0", "U+B370", "U+C774", "U+D130", " ", "U+C5C6",
          "U+C74C">>

ParsingFailed ==
    <<" ", "(", "U+D30C", "U+C2F1", " ", "U+C2E4", "U+D328", ")">>

HttpPrefix ==
    <<"h", "t", "t", "p", ":", "/", "/">>

HttpsPrefix ==
    <<"h", "t", "t", "p", "s", ":", "/", "/">>

Ellipsis ==
    <<".", ".", ".">>

\* Storage paths: the url-safe base64, without padding, of "d/policy_a.txt" and
\* of "d/policy_b.txt"; one of a length base64 cannot have; one that decodes to
\* the byte 0xff, which is no UTF-8; and a plain URL.
PathPolicyA ==
    <<"Z", "C", "9", "w", "b", "2", "x", "p", "Y", "3", "l", "f", "Y", "S",
          "5", "0", "e", "H", "Q">>

PathPolicyB ==
    <<"Z", "C", "9", "w", "b", "2", "x", "p", "Y", "3", "l", "f", "Y", "i",
          "5", "0", "e", "H", "Q">>

PathBadLength ==
    <<"a", "b", "c", "d", "e">>

PathNotUtf8 ==
    <<"_", "w">>

PathUrl ==
    <<"h", "t", "t", "p", "s", ":", "/", "/", "h", "/", "M", "y", "%", "2",
          "0", "P", "l", "a", "n", "%", "2", "0", "(", "v", "2", ")", ".",
          "p", "d", "f">>

NamePolicyA ==
    <<"p", "o", "l", "i", "c", "y", "_", "a", ".", "t", "x", "t">>

NamePolicyB ==
    <<"p", "o", "l", "i", "c", "y", "_", "b", ".", "t", "x", "t">>

NamePolicyC ==
    <<"p", "o", "l", "i", "c", "y", "_", "c", ".", "t", "x", "t">>

\* base64.b64decode(padded).decode('utf-8') on the padded storage paths above.
b64decode_utf8(padded) ==
    CASE padded = PathPolicyA \o <<"=">> ->
            Returned(<<"d", "/", "p", "o", "l", "i", "c", "y", "_", "a", ".", "t", "x", "t">>)
      [] padded = PathPolicyB \o <<"=">> ->
            Returned(<<"d", "/", "p", "o", "l", "i", "c", "y", "_", "b", ".", "t", "x", "t">>)
      [] padded = PathBadLength \o <<"=", "=", "=">> ->
            Raised([type |-> "binascii.Error",
                    msg |-> "Invalid base64-encoded string: number of data characters (5) cannot be 1 more than a multiple of 4"])
      [] padded = <<"/", "w", "=", "=">> ->
            Raised([type |-> "UnicodeDecodeError",
                    msg |-> "'utf-8' codec can't decode byte 0xff in position 0: invalid start byte"])

\* A Document: page_content and the metadata dict.
Document(content, metadata) == [page_content |-> content, metadata |-> metadata]
Metadata(name, path) ==
    [k \in (IF name = None THEN {} ELSE {"metadata_storage_name"}) \cup
           (IF path = None THEN {} ELSE {"metadata_storage_path"}) |->
        IF k = "metadata_storage_name" THEN name[1] ELSE path[1]]

\* A slip: a document without a storage path is filed under its name.
StorageKeyOrName(doc) ==
    IF "metadata_storage_path" \in DOMAIN doc.metadata
      THEN Some(doc.metadata["metadata_storage_path"])
      ELSE IF "metadata_storage_name" \in DOMAIN doc.metadata
             THEN Some(doc.metadata["metadata_storage_name"]) ELSE None

\* doc.metadata.get("metadata_storage_path"): the key of the dict comprehension.
StorageKey(doc) ==
    IF "metadata_storage_path" \in DOMAIN doc.metadata
      THEN Some(doc.metadata["metadata_storage_path"]) ELSE None

\* A slip: the first document of each path kept, not the last.
UniqueDocumentsFirstSeen(documents) ==
    LET key(i) == StorageKey(documents[i])
        firsts == SelectSeq([i \in DOMAIN documents |-> i],
                            LAMBDA i : \A j \in 1..(i - 1) : key(j) # key(i))
    IN [n \in DOMAIN firsts |-> documents[firsts[n]]]

\* {path: doc for doc in documents}.values(): one document for each path, in
\* the order in which the paths first come, each the last document of its path.
UniqueDocuments(documents) ==
    LET key(i) == StorageKey(documents[i])
        firsts == SelectSeq([i \in DOMAIN documents |-> i],
                            LAMBDA i : \A j \in 1..(i - 1) : key(j) # key(i))
    IN [n \in DOMAIN firsts |->
          documents[CHOOSE i \in DOMAIN documents :
                       /\ key(i) = key(firsts[n])
                       /\ \A j \in (i + 1)..Len(documents) : key(j) # key(firsts[n])]]

\* path_key_std + '=' * (-len(path_key_std) % 4)
Padded(path_key_std) == path_key_std \o [i \in 1..((-Len(path_key_std)) % 4) |-> "="]

\* s.ljust(((len(s) + 3) // 4) * 4, '=')
LJust(s) == s \o [i \in 1..(((Len(s) + 3) \div 4) * 4 - Len(s)) |-> "="]

IsHttp(path) == StartsWith(path, HttpPrefix) \/ StartsWith(path, HttpsPrefix)

\* The try block of the loop (lines 40-66): the name of the metadata, or the
\* name parsed out of the storage path.
FileNameTry(doc) ==
    LET file_name_from_meta == DictGet(doc.metadata, "metadata_storage_name", <<>>)
        path_key == DictGet(doc.metadata, "metadata_storage_path", <<>>)
        decoded == IF IsHttp(path_key) THEN Returned(path_key)
                   ELSE b64decode_utf8(Padded(Replace(Replace(path_key, "-", "+"), "_", "/")))
        parsed_name == Basename(Unquote(UrlPath(decoded.value)))
    IN IF file_name_from_meta # <<>> THEN Returned(file_name_from_meta)
       ELSE IF path_key = <<>>
         THEN Raised([type |-> "ValueError", msg |-> "metadata_storage_path is empty"])
       ELSE IF decoded.raised THEN decoded
       ELSE IF parsed_name # <<>> THEN Returned(parsed_name)
       ELSE Raised([type |-> "ValueError",
                    msg |-> "Parsed filename is empty after decoding."])

\* The try with its except clause (lines 68-73): raw_path_for_debug is the
\* storage path whenever the try raised.
FileName(doc) ==
    LET attempt == FileNameTry(doc)
        raw_path_for_debug == DictGet(doc.metadata, "metadata_storage_path", <<>>)
    IN IF ~attempt.raised THEN attempt.value
       ELSE IF raw_path_for_debug # <<>> THEN raw_path_for_debug \o ParsingFailed
       ELSE NoMetadata

\* re.sub(r'\([^)]*\)', '', text): from each "(" to the next ")", removed.
RECURSIVE RemoveParentheticals(_)
RemoveParentheticals(text) ==
    LET open == Find(text, "(")
        close == IF open = 0 THEN 0 ELSE Find(Drop(text, open), ")")
    IN IF open = 0 \/ close = 0 THEN text
       ELSE Take(text, open - 1) \o RemoveParentheticals(Drop(text, open + close))

\* re.sub(r'\s+', ' ', text): each run of whitespace becomes one space.
RECURSIVE CollapseWhitespace(_)
CollapseWhitespace(text) ==
    IF text = <<>> THEN <<>>
    ELSE IF text[1] \in Whitespace
      THEN <<" ">> \o CollapseWhitespace(LStrip(text))
      ELSE <<text[1]>> \o CollapseWhitespace(Tail(text))

\* The characters of the class [0-9a-zA-Z가-힣 ].
KeptCharacters ==
    Digits \cup Range(LowerLetters) \cup Range(UpperLetters) \cup HangulSyllables \cup {" "}

\* normalize_filename (lines 83-89)
normalize_filename(text) ==
    LET noParentheticals == RemoveParentheticals(text)
        noExtension == SplitextRoot(noParentheticals)
        collapsed == Strip(CollapseWhitespace(noExtension))
        lowered == [i \in DOMAIN collapsed |-> Lower(collapsed[i])]
    IN SelectSeq(lowered, LAMBDA c : c \in KeptCharacters)

\* set(a.split()): the maximal runs of characters that are no whitespace.
token_set(a) ==
    {SubSeq(a, i, j) : <<i, j>> \in
        {p \in (DOMAIN a) \X (DOMAIN a) :
            /\ p[1] <= p[2]
            /\ \A k \in p[1]..p[2] : a[k] \notin Whitespace
            /\ p[1] = 1 \/ a[p[1] - 1] \in Whitespace
            /\ p[2] = Len(a) \/ a[p[2] + 1] \in Whitespace}}

\* A float that is a quotient of two naturals is kept as the pair of them.
Quotient(n, d) == <<n, d>>
AtLeast(q, r) == q[1] * r[2] >= r[1] * q[2]
MaxQuotient(q, r) == IF AtLeast(q, r) THEN q ELSE r

\* token_jaccard (lines 96-101)
token_jaccard(a, b) ==
    LET sa == token_set(a)
        sb == token_set(b)
    IN IF sa = {} \/ sb = {} THEN Quotient(0, 1)
       ELSE Quotient(Cardinality(sa \cap sb), Max(1, Cardinality(sa \cup sb)))

\* difflib.SequenceMatcher: the length of the block of equal characters that
\* starts at a[i] and b[j] and stays within a[..ahi] and b[..bhi].
RECURSIVE BlockLength(_, _, _, _, _, _)
BlockLength(a, b, i, j, ahi, bhi) ==
    IF i > ahi \/ j > bhi \/ a[i] # b[j] THEN 0
    ELSE 1 + BlockLength(a, b, i + 1, j + 1, ahi, bhi)

\* find_longest_match(alo, ahi, blo, bhi): a longest block; of these, one that
\* starts earliest in a; of these, the one that starts earliest in b.  Nothing
\* is junk: isjunk is None and b is shorter than 200 characters.
find_longest_match(a, b, alo, ahi, blo, bhi) ==
    LET starts == {p \in (alo..ahi) \X (blo..bhi) : a[p[1]] = b[p[2]]}
        size(p) == BlockLength(a, b, p[1], p[2], ahi, bhi)
        best == CHOOSE p \in starts :
                   \A q \in starts :
                      \/ size(p) > size(q)
                      \/ size(p) = size(q) /\ p[1] < q[1]
                      \/ size(p) = size(q) /\ p[1] = q[1] /\ p[2] <= q[2]
    IN IF starts = {} THEN [i |-> alo, j |-> blo, size |-> 0]
       ELSE [i |-> best[1], j |-> best[2], size |-> size(best)]

\* The sum of the sizes of get_matching_blocks(): the longest block, then the
\* same to its left and to its right.
RECURSIVE MatchedCharacters(_, _, _, _, _, _)
MatchedCharacters(a, b, alo, ahi, blo, bhi) ==
    IF alo > ahi \/ blo > bhi THEN 0
    ELSE LET m == find_longest_match(a, b, alo, ahi, blo, bhi) IN
         IF m.size = 0 THEN 0
         ELSE m.size
              + MatchedCharacters(a, b, alo, m.i - 1, blo, m.j - 1)
              + MatchedCharacters(a, b, m.i + m.size, ahi, m.j + m.size, bhi)

\* SequenceMatcher(None, a, b).ratio(): 2.0 * matches / length, 1.0 for two
\* empty strings.
ratio(a, b) ==
    IF Len(a) + Len(b) = 0 THEN Quotient(1, 1)
    ELSE Quotient(2 * MatchedCharacters(a, b, 1, Len(a), 1, Len(b)), Len(a) + Len(b))

\* The score and the overlap of one cited name (lines 107-114).
Score(norm_file, norm_cited) ==
    MaxQuotient(ratio(norm_file, norm_cited), token_jaccard(norm_file, norm_cited))
Overlap(norm_file, norm_cited) ==
    Cardinality(token_set(norm_file) \cap token_set(norm_cited))

\* A slip: and for or.
is_cited_both(file_name, source_files_filter) ==
    LET norm_file == normalize_filename(SplitextRoot(file_name)) IN
    \E n \in DOMAIN source_files_filter :
        LET norm_cited == normalize_filename(source_files_filter[n]) IN
        /\ AtLeast(Score(norm_file, norm_cited), Quotient(35, 100))
        /\ Overlap(norm_file, norm_cited) >= 1

\* is_cited (lines 79-117): score >= 0.35 or overlap >= 1 for some cited name.
is_cited(file_name, source_files_filter) ==
    LET norm_file == normalize_filename(SplitextRoot(file_name)) IN
    \E n \in DOMAIN source_files_filter :
        LET norm_cited == normalize_filename(source_files_filter[n]) IN
        \/ AtLeast(Score(norm_file, norm_cited), Quotient(35, 100))
        \/ Overlap(norm_file, norm_cited) >= 1

\* The dict appended for a document (lines 126-134 and 151-158).
FormattedDocument(doc, file_name) ==
    LET full_content == Strip(Replace(doc.page_content, "\n", " "))
        preview == IF Len(full_content) > 250
                     THEN Take(full_content, 250) \o Ellipsis ELSE full_content
    IN [file_name |-> file_name, preview |-> preview, full_content |-> full_content]

\* display_name of the fallback (lines 144-152), outside any try.
DisplayName(doc) ==
    LET name == DictGet(doc.metadata, "metadata_storage_name", <<>>)
        path == DictGet(doc.metadata, "metadata_storage_path", <<>>)
        decoded == b64decode_utf8(LJust(Replace(Replace(path, "-", "+"), "_", "/")))
    IN IF path # <<>> /\ ~IsHttp(path)
         THEN IF name # <<>> THEN Returned(name)
              ELSE IF decoded.raised THEN decoded
              ELSE Returned(Basename(Unquote(UrlPath(decoded.value))))
         ELSE IF name # <<>> THEN Returned(name)
              ELSE Returned(Basename(Unquote(UrlPath(path))))

\* The fallback (lines 140-159): every unique document, under its display name.
ShowAll(documents) ==
    LET unique == UniqueDocuments(documents)
        names == [i \in DOMAIN unique |-> DisplayName(unique[i])]
        failed == {i \in DOMAIN unique : names[i].raised}
    IN IF failed # {}
         THEN names[CHOOSE i \in failed : \A j \in failed : i <= j]
         ELSE Returned([i \in DOMAIN unique |->
                 FormattedDocument(unique[i],
                     IF names[i].value # <<>> THEN names[i].value ELSE UnknownSource)])

\* if source_files_filter: neither None nor an empty list.
Truthy(optional) == optional # None /\ optional[1] # <<>>

\* format_source_documents (lines 18-161)
format_source_documents(documents, source_files_filter) ==
    IF documents = <<>> THEN Returned(<<>>)
    ELSE LET unique == UniqueDocuments(documents)
             file_names == [i \in DOMAIN unique |-> FileName(unique[i])]
             shown == SelectSeq([i \in DOMAIN unique |-> i],
                          LAMBDA i : Truthy(source_files_filter) =>
                                        is_cited(file_names[i], source_files_filter[1]))
             formatted_docs ==
                 [n \in DOMAIN shown |->
                     FormattedDocument(unique[shown[n]], file_names[shown[n]])]
             matched_any == Truthy(source_files_filter) /\ formatted_docs # <<>>
         IN IF Truthy(source_files_filter) /\ ~matched_any
              THEN ShowAll(documents)
              ELSE Returned(formatted_docs)

\* The documents a retrieval may hand over: with and without a name, with and
\* without a storage path, two of one path, two without any.
DocPolicyA == Document(<<" ", "A", "\n", "1", " ">>,
                       Metadata(Some(NamePolicyA), Some(PathPolicyA)))
DocPolicyARevised == Document(<<"A", "2">>, Metadata(None, Some(PathPolicyA)))
DocPolicyB == Document([i \in 1..260 |-> IF i = 100 THEN "\n" ELSE "b"],
                       Metadata(Some(NamePolicyB), Some(PathPolicyB)))
DocPolicyC == Document(<<"C">>, Metadata(Some(NamePolicyC), None))
DocBadLength == Document(<<"U">>, Metadata(None, Some(PathBadLength)))
DocNotUtf8 == Document(<<"V">>, Metadata(None, Some(PathNotUtf8)))
DocBare == Document(<<"N">>, Metadata(None, None))
DocUrl == Document(<<"H">>, Metadata(None, Some(PathUrl)))
RetrievedDocuments == {DocPolicyA, DocPolicyARevised, DocPolicyB, DocPolicyC,
                       DocBadLength, DocNotUtf8, DocBare, DocUrl}

\* source_files_used of the caller: None, or the names the answer cited.
CitedNonexistent ==
    <<"n", "o", "n", "e", "x", "i", "s", "t", "e", "n", "t", ".", "t", "x",
      "t">>
CitedPlan ==
    <<"M", "y", " ", " ", "P", "l", "a", "n", ".", "P", "D", "F">>
CitedBadLength ==
    <<"a", "b", "c", "d", "e">>
SourceFilesFilters ==
    {None, Some(<<>>), Some(<<CitedNonexistent>>), Some(<<NamePolicyA>>),
     Some(<<CitedNonexistent, CitedPlan>>), Some(<<CitedBadLength>>)}

DocumentLists == UNION {[1..n -> RetrievedDocuments] : n \in 0..MaxDocuments}

\* One call of format_source_documents.
FormatSourceDocuments ==
    /\ fmt_pc = "idle"
    /\ \E documents \in DocumentLists, source_files_filter \in SourceFilesFilters :
          LET outcome == format_source_documents(documents, source_files_filter) IN
          /\ fmt_input' = [documents |-> documents,
                           source_files_filter |-> source_files_filter]
          /\ fmt_outcome' = outcome
          /\ fmt_pc' = IF outcome.raised THEN "raised" ELSE "returned"
    /\ UNCHANGED <<streamVars, classifyVars, limitVars, mainVars, twoVars>>

FormatInit ==
    /\ INITIAL_BUFFER_SIZE = 1
    /\ SUBSEQUENT_BUFFER_SIZE = 1
    /\ StreamStart
    /\ ClassifyIdle
    /\ FormatIdle
    /\ LimitIdle
    /\ MainIdle
    /\ OneRun

FormatNext == FormatSourceDocuments

FormatSpec == FormatInit /\ [][FormatNext]_vars

(***************************************************************************)
(* limit_docs_with_metadata (src/core/rag_core.py)                         *)
(***************************************************************************)
rag_max_context_tokens == 2000

Separator == <<"\n", "\n">>

\* A slip: four characters to the token.
DocTokensByFour(page_content) == Max(1, Len(page_content) \div 4)

\* doc_tokens = max(1, len(doc.page_content) // 3)
DocTokens(page_content) == Max(1, Len(page_content) \div 3)

RECURSIVE LimitWalk(_, _, _, _, _)

\* A slip: the loop goes on to the next document.
WalkGoesOn(docs, i, combined_text, current_tokens, max_tokens) ==
    LimitWalk(docs, i + 1, combined_text, current_tokens, max_tokens)

\* break: the loop is left with the text it has.
WalkBreaks(docs, i, combined_text, current_tokens, max_tokens) == combined_text

\* The for loop (lines 160-169), standing before docs[i].
LimitWalk(docs, i, combined_text, current_tokens, max_tokens) ==
    IF i > Len(docs) THEN combined_text
    ELSE LET page_content == docs[i].page_content
             doc_tokens == DocTokens(page_content)
             remaining_tokens == max_tokens - current_tokens
             remaining_chars == Max(0, remaining_tokens * 3)
         IN IF current_tokens + doc_tokens > max_tokens
              THEN WalkBreaks(docs, i,
                      IF remaining_chars > 100
                        THEN combined_text \o Separator
                                \o Take(page_content, remaining_chars) \o Ellipsis
                        ELSE combined_text,
                      current_tokens, max_tokens)
              ELSE LimitWalk(docs, i + 1, combined_text \o Separator \o page_content,
                             current_tokens + doc_tokens, max_tokens)

\* limit_docs_with_metadata (lines 137-171); max_tokens is None or a number.
limit_docs_with_metadata(docs, max_tokens, config_max_tokens) ==
    IF docs = <<>> THEN [documents |-> <<>>, combined_text |-> <<>>]
    ELSE [documents |-> docs,
          combined_text |->
              Strip(LimitWalk(docs, 1, <<>>, 0,
                              IF max_tokens = None THEN config_max_tokens
                              ELSE max_tokens[1]))]

\* The documents of a ranked list: of one token, of one token with whitespace
\* at both ends, empty, and of 130 characters.
DocShort == Document(<<"s", "h", "o", "r", "t">>, EmptyDict)
DocSpaced == Document(<<" ", "a", "b", "\n">>, EmptyDict)
DocEmpty == Document(<<>>, EmptyDict)
DocLong == Document([i \in 1..130 |-> "l"], EmptyDict)
RankedLists ==
    UNION {[1..n -> {DocShort, DocSpaced, DocEmpty, DocLong}] : n \in 0..MaxRanked}
        \cup {[i \in 1..n |-> DocShort] : n \in 0..MaxRepeated}

\* One call of limit_docs_with_metadata, the budget given as max_tokens or
\* read from the configuration.
LimitDocs ==
    /\ lim_pc = "idle"
    /\ \E docs \in RankedLists, budget \in 0..MaxBudget, given \in BOOLEAN :
          LET max_tokens == IF given THEN Some(budget) ELSE None
              config_max_tokens == IF given THEN rag_max_context_tokens ELSE budget
          IN /\ lim_input' = [docs |-> docs, max_tokens |-> max_tokens,
                              config_max_tokens |-> config_max_tokens]
             /\ lim_result' = limit_docs_with_metadata(docs, max_tokens, config_max_tokens)
    /\ lim_pc' = "returned"
    /\ UNCHANGED <<streamVars, classifyVars, formatVars, mainVars, twoVars>>

LimitInit ==
    /\ INITIAL_BUFFER_SIZE = 1
    /\ SUBSEQUENT_BUFFER_SIZE = 1
    /\ StreamStart
    /\ ClassifyIdle
    /\ FormatIdle
    /\ LimitIdle
    /\ MainIdle
    /\ OneRun

LimitNext == LimitDocs

LimitSpec == LimitInit /\ [][LimitNext]_vars

(***************************************************************************)
(* A generator of stream_and_filter_response as an object: its locals and  *)
(* its place in the function, kept while it is suspended.                  *)
(***************************************************************************)
\* The locals and the place of the generator the variables hold.
Frame ==
    [pc |-> pc, buffer |-> buffer, text_to_check |-> text_to_check,
     is_first_chunk |-> is_first_chunk,
     current_buffer_size |-> current_buffer_size,
     total_elapsed_time |-> total_elapsed_time,
     all_source_documents |-> all_source_documents,
     all_source_files |-> all_source_files, guardrail_result |-> guardrail_result,
     events |-> events, consumed |-> consumed, pulls |-> pulls,
     upstream |-> upstream, calls |-> calls, returned |-> returned]

\* A generator just created (lines 18-24 not yet run, as in StreamStart).
StartFrame ==
    [pc |-> "pull", buffer |-> <<>>, text_to_check |-> <<>>, is_first_chunk |-> TRUE,
     current_buffer_size |-> 0, total_elapsed_time |-> 0,
     all_source_documents |-> <<>>, all_source_files |-> {},
     guardrail_result |-> EmptyDict, events |-> <<>>, consumed |-> <<>>,
     pulls |-> 0, upstream |-> "open", calls |-> <<>>,
     returned |-> [elapsed_time |-> 0, source_documents |-> <<>>, source_files |-> {},
                   cited_files |-> {}]]

\* A slip: buffer is a name of the module, one for all generators.
ResumeSharingBuffer(frame) ==
    /\ pc' = frame.pc
    /\ buffer' = buffer
    /\ text_to_check' = frame.text_to_check
    /\ is_first_chunk' = frame.is_first_chunk
    /\ current_buffer_size' = frame.current_buffer_size
    /\ total_elapsed_time' = frame.total_elapsed_time
    /\ all_source_documents' = frame.all_source_documents
    /\ all_source_files' = frame.all_source_files
    /\ guardrail_result' = frame.guardrail_result
    /\ events' = frame.events
    /\ consumed' = frame.consumed
    /\ pulls' = frame.pulls
    /\ upstream' = frame.upstream
    /\ calls' = frame.calls
    /\ returned' = frame.returned

\* next() on a generator: its own locals are the ones the code reads and
\* writes from here on.
Resume(frame) ==
    /\ pc' = frame.pc
    /\ buffer' = frame.buffer
    /\ text_to_check' = frame.text_to_check
    /\ is_first_chunk' = frame.is_first_chunk
    /\ current_buffer_size' = frame.current_buffer_size
    /\ total_elapsed_time' = frame.total_elapsed_time
    /\ all_source_documents' = frame.all_source_documents
    /\ all_source_files' = frame.all_source_files
    /\ guardrail_result' = frame.guardrail_result
    /\ events' = frame.events
    /\ consumed' = frame.consumed
    /\ pulls' = frame.pulls
    /\ upstream' = frame.upstream
    /\ calls' = frame.calls
    /\ returned' = frame.returned

\* The collaborators of check_guardrail answer a window by its text, the
\* same whenever the same window is checked.
ScriptedRetrieval(window) ==
    IF "b" \in Range(window)
      THEN [raises |-> TRUE,
            exc |-> [type |-> "HttpResponseError", msg |-> "search unavailable"],
            docs |-> <<>>]
      ELSE [raises |-> FALSE, exc |-> NoException,
            docs |-> IF Head(window) \in {"a", "m"} THEN <<"doc_a">>
                     ELSE <<"doc_b", "doc_a">>]

ScriptedGeneration(window) ==
    IF Range(window) \cap {"c", "p"} # {}
      THEN [raises |-> FALSE, exc |-> NoException, text |-> AnswerHarmful]
    ELSE IF "n" \in Range(window)
      THEN [raises |-> FALSE, exc |-> NoException, text |-> AnswerCannotDetermine]
    ELSE IF "o" \in Range(window)
      THEN [raises |-> TRUE,
            exc |-> [type |-> "APITimeoutError", msg |-> "Request timed out."],
            text |-> ""]
    ELSE [raises |-> FALSE, exc |-> NoException, text |-> AnswerSafe]

ScriptedElapsed(window) == IF Len(window) = 1 THEN 1 ELSE 2

ScriptedResult(window) ==
    check_guardrail(window, ScriptedRetrieval(window), ScriptedGeneration(window),
                    ScriptedElapsed(window)).value

(***************************************************************************)
(* main() of the chat page (src/src/web/app.py), one run of the script for *)
(* each input of the client or click of the reset button.  The chat        *)
(* history st.session_state["messages"] outlives the runs; everything else *)
(* is local to a run.  While the reply is consumed (lines 325-345) the     *)
(* generator of stream_and_filter_response and the loop take turns: the    *)
(* generator runs to its next yield, the loop body handles the event, and  *)
(* next() resumes the generator.                                           *)
(***************************************************************************)
\* The client's input.
UserInput == <<"q">>

\* Lines 250-253 and 399-402: the message a history starts with (its text
\* written here in ASCII).
SystemMessage ==
    [role |-> "system", content |-> <<"You are the assistant of the guardrail service.">>]

\* The Document objects the retriever holds in source_documents, by the names
\* the classifier model gives them.
IndexedDocument(id) ==
    CASE id = "doc_a" -> DocUrl
      [] id = "doc_b" -> DocBadLength
      [] OTHER -> DocBare

\* A str that the answer's source_files yields, as text.
FileNameText(name) ==
    CASE name = "policy_a.txt" -> NamePolicyA
      [] name = "policy_b.txt" -> NamePolicyB
      [] name = "a" -> <<"a">>
      [] name = "b" -> <<"b">>
      [] OTHER -> CitedNonexistent

\* d.get("source_documents", []) of a verdict or of a DIAGNOSTICS payload
SourceDocs(check) ==
    LET ids == DictGet(check, "source_documents", <<>>)
    IN [i \in DOMAIN ids |-> IndexedDocument(ids[i])]

\* input_check.get("source_files", None) of line 283: the value the answer
\* held under that key, as it is
VerdictFilesUsed(check) ==
    IF "source_files" \in DOMAIN check THEN Some(check["source_files"]) ELSE None

\* output_diagnostics.get("source_files", None) of line 367: the list of str
\* that line 53, 79, 89 or 98 made of all_source_files
SourceFilesUsed(check) ==
    IF "source_files" \in DOMAIN check THEN Some(PyNames(check["source_files"]))
    ELSE None

\* format_source_documents(source_docs, source_files_used) of lines 284 and
\* 368, on the Python value handed over.  When there are documents and the
\* value is truthy, the loop of line 104 iterates it for the first document
\* and normalize_filename takes each element: a number cannot be iterated
\* and re.sub (line 85) takes nothing but a str, so TypeError leaves the
\* function before anything else can; a str is iterated by its characters.
FormattedDocs(source_docs, source_files_used) ==
    LET given == source_files_used # None
        iterated == given /\ source_docs # <<>> /\ PyTruthy(source_files_used[1])
        cited == IF given THEN source_files_used[1].items ELSE <<>>
        type_error ==
            IF ~iterated THEN None
            ELSE IF source_files_used[1].py_type \notin {"list", "str"}
              THEN Some([type |-> "TypeError", msg |-> "'int' object is not iterable"])
            ELSE IF \E i \in DOMAIN cited : cited[i].py_type # "str"
              THEN Some([type |-> "TypeError",
                         msg |-> "expected string or bytes-like object, got 'dict'"])
            ELSE None
        source_files_filter ==
            IF given THEN Some([i \in DOMAIN cited |-> FileNameText(cited[i].text)])
            ELSE None
    IN IF type_error # None THEN Raised(type_error[1])
       ELSE format_source_documents(source_docs, source_files_filter)

\* f"{input_check.get('reason')}": the reason, or "None" when there is none.
ReasonShown(check) == DictGet(check, "reason", <<"None">>)

\* The messages the handler appends to the chat history: the two f-strings
\* of lines 298-311 and 382-394, each a fixed notice around the reason, the
\* f-string of line 353 around str(e), and the reply of lines 355-358.
WarningMessage(check) ==
    [role |-> "assistant",
     content |-> <<"[inappropriate question detected] reason: ">> \o ReasonShown(check)]
FallbackMessage(check) ==
    [role |-> "assistant",
     content |-> <<"[question not understood] reason: ">> \o ReasonShown(check)]
ReplyFailedMessage(exc) == <<"[error while generating the reply] ", exc.msg>>
AssistantMessage(content) == [role |-> "assistant", content |-> content]

\* What llm.stream(...) raises when the generation service cannot be reached.
LlmStreamException == [type |-> "APIConnectionError", msg |-> "Connection error."]

\* The collaborators of check_guardrail on the client's input.
InputRetrievals ==
    {r \in RetrievalOutcomes : r.raises \/ r.docs = <<"doc_b", "doc_a">>}
InputGenerations ==
    {g \in GenerationOutcomes :
        \/ g.raises /\ g.exc.type = "APITimeoutError"
        \/ ~g.raises /\ g.text \in {AnswerSafe, AnswerHarmful, AnswerHarmfulBare,
                                    AnswerCannotDetermine, AnswerProse,
                                    AnswerFilesNumber, AnswerFilesObject,
                                    AnswerFilesString}}

\* The locals of a run of main() before line 273.
FreshRun ==
    /\ input_check' = <<>>
    /\ formatted_input_docs' = <<>>
    /\ llm_stream' = FALSE
    /\ full_response' = <<>>
    /\ is_blocked' = FALSE
    /\ output_diagnostics' = None
    /\ received' = 0
    /\ formatted_output_docs' = <<>>

\* Lines 181 and 263-269: the client submits an input; the script runs with
\* the checkbox as it stands, and the input joins the history.  The page
\* takes an input after a run that returned or that an exception ended.
ReceiveInput ==
    /\ main_pc \in {"ready", "done", "raised"}
    /\ script_runs < MaxScriptRuns
    /\ script_runs' = script_runs + 1
    /\ show_diagnostics' \in BOOLEAN
    /\ messages' = Append(messages, [role |-> "user", content |-> UserInput])
    /\ FreshRun
    /\ main_pc' = "input"
    /\ UNCHANGED <<streamVars, classifyVars, formatVars, limitVars, twoVars>>

\* Line 273: input_check = check_guardrail(user_input).
CheckInput ==
    /\ main_pc = "input"
    /\ \E retrieval \in InputRetrievals, generation \in InputGenerations :
          LET outcome == check_guardrail(UserInput, retrieval, generation, 1) IN
          IF outcome.raised
            THEN main_pc' = "raised" /\ input_check' = input_check
            ELSE main_pc' = "diagnostics" /\ input_check' = outcome.value
    /\ UNCHANGED <<show_diagnostics, formatted_input_docs, messages, llm_stream,
                   full_response, is_blocked, output_diagnostics, received,
                   formatted_output_docs, script_runs>>
    /\ UNCHANGED <<streamVars, classifyVars, formatVars, limitVars, twoVars>>

\* Lines 276-293 and 361-377: a diagnostics panel, the one of the input
\* after line 273 or the one of the reply after line 358, drawn when the
\* checkbox is ticked (and, for the reply, when DIAGNOSTICS was received).
\* The calls of lines 284 and 368 stand in no try block: what
\* format_source_documents raises leaves main().
ShowDiagnostics ==
    /\ main_pc \in {"diagnostics", "output_diagnostics"}
    /\ LET of_input == main_pc = "diagnostics"
           drawn == show_diagnostics /\ (of_input \/ output_diagnostics # None)
           go_on == IF of_input THEN "branch" ELSE "done"
       IN IF ~drawn
            THEN /\ main_pc' = go_on
                 /\ UNCHANGED <<formatted_input_docs, formatted_output_docs>>
            ELSE \E diagnostics \in {IF of_input THEN input_check
                                                ELSE output_diagnostics[1]} :
                 \E source_docs \in {SourceDocs(diagnostics)},
                    source_files_used \in {IF of_input
                                              THEN VerdictFilesUsed(diagnostics)
                                              ELSE SourceFilesUsed(diagnostics)} :
                 LET outcome == FormattedDocs(source_docs, source_files_used) IN
                 IF outcome.raised
                   THEN /\ main_pc' = "raised"
                        /\ UNCHANGED <<formatted_input_docs, formatted_output_docs>>
                   ELSE /\ main_pc' = go_on
                        /\ formatted_input_docs' =
                             IF of_input THEN outcome.value ELSE formatted_input_docs
                        /\ formatted_output_docs' =
                             IF of_input THEN formatted_output_docs ELSE outcome.value
    /\ UNCHANGED <<show_diagnostics, input_check, messages, llm_stream,
                   full_response, is_blocked, output_diagnostics, received,
                   script_runs>>
    /\ UNCHANGED <<streamVars, classifyVars, formatVars, limitVars, twoVars>>

\* Lines 295-323, 351-358 and 379-394: the branch on
\* input_check.get("decision").  A HARMFUL input gets the warning and any
\* verdict other than SAFE the fallback message, and main() goes on to line
\* 397.  For a SAFE input llm.stream is called with the history: it returns
\* the stream that a new generator of stream_and_filter_response is to
\* read, or it raises, and then the handler of line 351 makes the error
\* text the reply and lines 355-358 append it.
BranchOnDecision ==
    /\ main_pc = "branch"
    /\ LET decision == DictGet(input_check, "decision", "") IN
       IF decision = "HARMFUL"
         THEN /\ messages' = Append(messages, WarningMessage(input_check))
              /\ main_pc' = "done"
              /\ UNCHANGED <<llm_stream, full_response, streamVars>>
       ELSE IF decision = "SAFE"
         THEN /\ llm_stream' = TRUE
              /\ \/ /\ Resume(StartFrame)
                    /\ configUnchanged
                    /\ main_pc' = "streaming"
                    /\ UNCHANGED <<messages, full_response>>
                 \/ /\ full_response' = ReplyFailedMessage(LlmStreamException)
                    /\ messages' = Append(messages, AssistantMessage(full_response'))
                    /\ main_pc' = "output_diagnostics"
                    /\ UNCHANGED streamVars
         ELSE /\ messages' = Append(messages, FallbackMessage(input_check))
              /\ main_pc' = "done"
              /\ UNCHANGED <<llm_stream, full_response, streamVars>>
    /\ UNCHANGED <<show_diagnostics, input_check, formatted_input_docs, is_blocked,
                   output_diagnostics, received, formatted_output_docs, script_runs>>
    /\ UNCHANGED <<classifyVars, formatVars, limitVars, twoVars>>

\* Line 325, next() of the for loop: the generator runs on from where it is
\* suspended, once the loop body has handled what it yielded last.  The
\* reply and the classifier behave as scripted.
GeneratorStep ==
    /\ main_pc = "streaming"
    /\ received = Len(events)
    /\ Next
    /\ calls' # calls =>
          guardrail_result' = ScriptedResult(calls'[Len(calls')].window)

\* Lines 326-345, the loop body on the event the generator is suspended at.
\* At DIAGNOSTICS after BLOCKED or ERROR the loop is left by break (line
\* 339): the generator, which only the loop refers to, is closed at the
\* yield where it stands (GeneratorExit, as in Cancel), and lines 355-358
\* append the reply.
HandleEvent ==
    /\ main_pc = "streaming"
    /\ received < Len(events)
    /\ received' = received + 1
    /\ LET event == events[received + 1] IN
       /\ full_response' =
            IF event.tag = "SAFE_CHUNK" THEN full_response \o event.payload
            ELSE IF event.tag \in {"BLOCKED", "ERROR"} THEN event.payload
            ELSE full_response
       /\ is_blocked' = (is_blocked \/ event.tag \in {"BLOCKED", "ERROR"})
       /\ output_diagnostics' =
            IF event.tag = "DIAGNOSTICS" THEN Some(event.payload)
            ELSE output_diagnostics
       /\ IF event.tag = "DIAGNOSTICS" /\ is_blocked
            THEN /\ messages' = Append(messages, AssistantMessage(full_response'))
                 /\ main_pc' = "output_diagnostics"
                 /\ pc' = "cancelled"
            ELSE UNCHANGED <<messages, main_pc, pc>>
    /\ UNCHANGED <<buffer, text_to_check, is_first_chunk, current_buffer_size,
                   total_elapsed_time, all_source_documents, all_source_files,
                   guardrail_result, events, consumed, pulls, upstream, calls,
                   returned>>
    /\ configUnchanged
    /\ UNCHANGED <<show_diagnostics, input_check, formatted_input_docs, llm_stream,
                   formatted_output_docs, script_runs>>
    /\ UNCHANGED <<classifyVars, formatVars, limitVars, twoVars>>

\* The generator has returned and next() raises StopIteration: the loop is
\* over, and lines 347-358 append the reply.
EndOfReply ==
    /\ main_pc = "streaming"
    /\ pc = "done" /\ received = Len(events)
    /\ messages' = Append(messages, AssistantMessage(full_response))
    /\ main_pc' = "output_diagnostics"
    /\ UNCHANGED streamVars
    /\ UNCHANGED <<show_diagnostics, input_check, formatted_input_docs, llm_stream,
                   full_response, is_blocked, output_diagnostics, received,
                   formatted_output_docs, script_runs>>
    /\ UNCHANGED <<classifyVars, formatVars, limitVars, twoVars>>

\* Lines 397-404: the client clicks the reset button, which a run that
\* reached line 397 has drawn; the history is the system message again.
ResetConversation ==
    /\ main_pc \in {"ready", "done"}
    /\ script_runs < MaxScriptRuns
    /\ script_runs' = script_runs + 1
    /\ messages' = <<SystemMessage>>
    /\ FreshRun
    /\ main_pc' = "ready"
    /\ UNCHANGED show_diagnostics
    /\ UNCHANGED <<streamVars, classifyVars, formatVars, limitVars, twoVars>>

\* Line 181 or 195: the client ticks the checkbox or clicks the upload
\* button.  The script runs without an input (line 263) and without the
\* reset (line 397): the history stays, and the run has no locals of an
\* input.
RunWithoutInput ==
    /\ main_pc \in {"ready", "done", "raised"}
    /\ script_runs < MaxScriptRuns
    /\ script_runs' = script_runs + 1
    /\ show_diagnostics' \in BOOLEAN
    /\ FreshRun
    /\ main_pc' = "ready"
    /\ UNCHANGED messages
    /\ UNCHANGED <<streamVars, classifyVars, formatVars, limitVars, twoVars>>

\* The page after its first run (lines 248-254): the history holds the
\* system message, and no input was entered yet.
MainStart ==
    /\ main_pc = "ready"
    /\ show_diagnostics = FALSE
    /\ input_check = <<>>
    /\ formatted_input_docs = <<>>
    /\ messages = <<SystemMessage>>
    /\ llm_stream = FALSE
    /\ full_response = <<>>
    /\ is_blocked = FALSE
    /\ output_diagnostics = None
    /\ received = 0
    /\ formatted_output_docs = <<>>
    /\ script_runs = 0

MainInit ==
    /\ INITIAL_BUFFER_SIZE \in 1..MaxThreshold
    /\ SUBSEQUENT_BUFFER_SIZE \in 1..MaxThreshold
    /\ StreamStart
    /\ ClassifyIdle
    /\ FormatIdle
    /\ LimitIdle
    /\ MainStart
    /\ OneRun

MainNext ==
    \/ ReceiveInput
    \/ CheckInput
    \/ ShowDiagnostics
    \/ BranchOnDecision
    \/ GeneratorStep
    \/ HandleEvent
    \/ EndOfReply
    \/ ResetConversation
    \/ RunWithoutInput

MainSpec == MainInit /\ [][MainNext]_vars


(***************************************************************************)
(* Two generators of stream_and_filter_response in one process, each over  *)
(* its own upstream, resumed in any order (two sessions of the chat page). *)
(* What a generator keeps between resumptions are the locals of lines      *)
(* 18-24 and its place in the function; the module holds the two           *)
(* thresholds, which no statement assigns.  Each generator first runs      *)
(* alone over its script, then the two run over the same scripts           *)
(* interleaved.                                                            *)
(***************************************************************************)
\* What an upstream delivers: the lengths of its fragments, and whether it
\* ends or raises after the last.
ScriptFragments == {<<1, 1>>, <<2, 2>>, <<3, 1>>, <<1, 0, 2>>}
Scripts == [frags : ScriptFragments, ending : {"ended", "raised"}]

\* A step of the generator that is running, its upstream and its classifier
\* behaving as scripted.
RunStep ==
    /\ script # <<>>
    /\ Next
    /\ pulls' # pulls =>
          /\ pulls' <= Len(script[run].frags)
          /\ Len(consumed') = Len(consumed) + script[run].frags[pulls']
    /\ upstream' # upstream =>
          /\ pulls = Len(script[run].frags)
          /\ upstream' = script[run].ending
    /\ calls' # calls =>
          guardrail_result' = ScriptedResult(calls'[Len(calls')].window)

\* The generator that ran alone has returned: what it yielded is kept, and
\* the next generator is created (the two that are to be interleaved, after
\* the second).
FinishAlone ==
    /\ script # <<>> /\ Len(solo) < 2
    /\ pc = "done"
    /\ solo' = Append(solo, Frame)
    /\ run' = IF Len(solo) = 0 THEN 2 ELSE 1
    /\ suspended' = IF Len(solo) = 0 THEN suspended ELSE StartFrame
    /\ Resume(StartFrame)
    /\ UNCHANGED script
    /\ configUnchanged
    /\ UNCHANGED <<classifyVars, formatVars, limitVars, mainVars>>

\* The thread of the other session runs: the generator that ran is left
\* where it stands, at a yield or waiting in check_guardrail (line 35), and
\* the other goes on from where it stood.
Switch ==
    /\ Len(solo) = 2
    /\ suspended' = Frame
    /\ run' = 3 - run
    /\ Resume(suspended)
    /\ UNCHANGED <<script, solo>>
    /\ configUnchanged
    /\ UNCHANGED <<classifyVars, formatVars, limitVars, mainVars>>

TwoRunsInit ==
    /\ INITIAL_BUFFER_SIZE \in 1..MaxThreshold
    /\ SUBSEQUENT_BUFFER_SIZE \in 1..MaxThreshold
    /\ StreamStart
    /\ ClassifyIdle
    /\ FormatIdle
    /\ LimitIdle
    /\ MainIdle
    /\ run = 1
    /\ suspended = <<>>
    /\ script \in [1..2 -> Scripts]
    /\ solo = <<>>

TwoRunsNext ==
    \/ RunStep
    \/ FinishAlone
    \/ Switch

TwoRunsSpec == TwoRunsInit /\ [][TwoRunsNext]_vars

\* The two places where a verdict of check_guardrail is acted on: a run of the
\* stream filter over a reply, or the handling of an input of the client.
VerdictInit == Init \/ MainInit

\* The steps of a stream run where a stream run was started, those of main()
\* where an input is being handled.
StreamRunStep == main_pc = "idle" /\ Next

VerdictNext == StreamRunStep \/ MainNext

VerdictSpec == VerdictInit /\ [][VerdictNext]_vars

(***************************************************************************)
(* What a run has shown so far.                                            *)
(***************************************************************************)
IsPrefix(p, s) == Len(p) <= Len(s) /\ SubSeq(s, 1, Len(p)) = p

RECURSIVE SafeText(_)
\* The SAFE_CHUNK payloads of evs, concatenated in emission order.
SafeText(evs) ==
    IF evs = <<>> THEN <<>>
    ELSE (IF Head(evs).tag = "SAFE_CHUNK" THEN Head(evs).payload ELSE <<>>)
         \o SafeText(Tail(evs))

TagPositions(tags) == {i \in DOMAIN events : events[i].tag \in tags}
Emitted(tag) == TagPositions({tag}) # {}
HarmfulSeen == \E i \in DOMAIN calls : calls[i].harmful

\* The window whose verdict produced the BLOCKED event, if there is one.
BlockedWindow == IF Emitted("BLOCKED") THEN calls[Len(calls)].window ELSE <<>>

(***************************************************************************)
(* C1  Character conservation: at every point of a run the SAFE_CHUNK      *)
(* payloads emitted so far, concatenated in emission order and followed by *)
(* the blocked window once BLOCKED is emitted, are a prefix of the         *)
(* concatenated upstream fragments: nothing duplicated, skipped or         *)
(* reordered.                                                              *)
(***************************************************************************)
C1_CharacterConservation ==
    /\ IsPrefix(SafeText(events) \o BlockedWindow, consumed)
    /\ IsPrefix(consumed, UpstreamChars)

\* A run over two fragments or more that emitted a SAFE_CHUNK, was then blocked
\* and ended with unclassified text left in the buffer.
C1_Witness ==
    /\ pc = "done" /\ Emitted("BLOCKED") /\ Emitted("SAFE_CHUNK")
    /\ pulls >= 2 /\ buffer # <<>>
    /\ Len(BlockedWindow) >= 2

(***************************************************************************)
(* C2  Early termination: once a window has been classified HARMFUL, no    *)
(* step of the run calls the classifier, pulls an upstream fragment or     *)
(* emits a SAFE_CHUNK, and the buffer is left as it is, never classified   *)
(* or emitted.                                                             *)
(***************************************************************************)
C2_EarlyTermination ==
    [][HarmfulSeen =>
          /\ calls' = calls
          /\ pulls' = pulls /\ consumed' = consumed /\ upstream' = upstream
          /\ SafeText(events') = SafeText(events)
          /\ buffer' = buffer]_vars

\* A finished run blocked in the loop while text was still buffered and the
\* upstream still had fragments to give.
C2_Witness ==
    /\ pc = "done" /\ HarmfulSeen
    /\ buffer # <<>> /\ upstream = "open" /\ pulls < MaxFrags
    /\ Emitted("SAFE_CHUNK")

(***************************************************************************)
(* C3  Terminal pairing: a DIAGNOSTICS event is the last event of a run    *)
(* and a finished run has exactly one; a BLOCKED or ERROR event is         *)
(* followed at once by DIAGNOSTICS (or DIAGNOSTICS is the one thing the     *)
(* generator has left to yield); a run has at most one BLOCKED or ERROR.   *)
(***************************************************************************)
C3_TerminalPairing ==
    /\ \A i \in TagPositions({"DIAGNOSTICS"}) : i = Len(events)
    /\ \A i \in TagPositions({"BLOCKED", "ERROR"}) :
          \/ i = Len(events) /\ pc \in {"blocked", "except"}
          \/ i = Len(events) - 1 /\ events[i + 1].tag = "DIAGNOSTICS"
    /\ Cardinality(TagPositions({"BLOCKED", "ERROR"})) <= 1
    /\ (pc \in {"diagnostics", "done"}) = (Cardinality(TagPositions({"DIAGNOSTICS"})) = 1)
    /\ pc \in {"blocked", "except"} =>
          events # <<>> /\ events[Len(events)].tag \in {"BLOCKED", "ERROR"}

\* A finished run that failed upstream after a SAFE_CHUNK: ERROR, DIAGNOSTICS.
C3_Witness ==
    /\ pc = "done" /\ Len(events) >= 3
    /\ events[Len(events) - 2].tag = "SAFE_CHUNK"
    /\ events[Len(events) - 1].tag = "ERROR"
    /\ events[Len(events)].tag = "DIAGNOSTICS"

(***************************************************************************)
(* C4  Threshold law, subsequent windows: every window classified after    *)
(* the first one, the remainder at the end of the stream apart, has        *)
(* exactly SUBSEQUENT_BUFFER_SIZE characters.                              *)
(***************************************************************************)
C4_SubsequentWindows ==
    \A i \in DOMAIN calls :
        (i >= 2 /\ ~calls[i].final) =>
            Len(calls[i].window) = SUBSEQUENT_BUFFER_SIZE

(***************************************************************************)
(* C5  Threshold law, final remainder: the remainder classified at the end *)
(* of the stream is shorter than SUBSEQUENT_BUFFER_SIZE.  A stream shorter *)
(* than INITIAL_BUFFER_SIZE is classified whole as its first window, so    *)
(* the remainder that is the only window of its run is held to             *)
(* INITIAL_BUFFER_SIZE instead; the bound as claimed implies this one.     *)
(***************************************************************************)
C5_RemainderBelowThreshold ==
    \A i \in DOMAIN calls :
        calls[i].final =>
            \/ Len(calls[i].window) < SUBSEQUENT_BUFFER_SIZE
            \/ i = 1 /\ Len(calls[i].window) < INITIAL_BUFFER_SIZE

(***************************************************************************)
(* C6  Threshold law, first window: the first window classified has        *)
(* INITIAL_BUFFER_SIZE characters, or is the whole text when the stream    *)
(* ends before that many arrived; a run over N > 0 characters whose        *)
(* upstream ended normally has classified min(INITIAL_BUFFER_SIZE, N)      *)
(* characters first.                                                       *)
(***************************************************************************)
C6_FirstWindow ==
    /\ calls # <<>> =>
          IF calls[1].final
            THEN /\ calls[1].window = consumed
                 /\ Len(consumed) < INITIAL_BUFFER_SIZE
            ELSE /\ Len(calls[1].window) = INITIAL_BUFFER_SIZE
                 /\ Len(consumed) >= INITIAL_BUFFER_SIZE
    /\ (pc = "done" /\ upstream = "ended" /\ Len(consumed) > 0) =>
          /\ calls # <<>>
          /\ Len(calls[1].window) = Min(INITIAL_BUFFER_SIZE, Len(consumed))

\* A finished run over a text longer than INITIAL_BUFFER_SIZE, the two
\* thresholds different: a first window, then others.
C6_Witness ==
    /\ pc = "done" /\ upstream = "ended"
    /\ INITIAL_BUFFER_SIZE >= 2 /\ SUBSEQUENT_BUFFER_SIZE # INITIAL_BUFFER_SIZE
    /\ Len(consumed) > INITIAL_BUFFER_SIZE
    /\ Len(calls) >= 2
    /\ Len(calls[1].window) = INITIAL_BUFFER_SIZE

(***************************************************************************)
(* C7  Window size bound: no window passed to the classifier, the          *)
(* remainder included, is longer than the larger of the two thresholds.    *)
(***************************************************************************)
C7_WindowBound ==
    \A i \in DOMAIN calls :
        Len(calls[i].window) <= Max(INITIAL_BUFFER_SIZE, SUBSEQUENT_BUFFER_SIZE)

\* A finished run with a window as long as the larger threshold and a
\* remainder, the text too long for one window.
C7_Witness ==
    /\ pc = "done"
    /\ Len(consumed) > Max(INITIAL_BUFFER_SIZE, SUBSEQUENT_BUFFER_SIZE)
    /\ INITIAL_BUFFER_SIZE < SUBSEQUENT_BUFFER_SIZE
    /\ \E i \in DOMAIN calls : Len(calls[i].window) = SUBSEQUENT_BUFFER_SIZE
    /\ calls[Len(calls)].final

(***************************************************************************)
(* C8  Full delivery: when the upstream ended normally and no window came  *)
(* back HARMFUL, the finished run has emitted the whole upstream text in   *)
(* its SAFE_CHUNK payloads, the remainder included, then one DIAGNOSTICS   *)
(* and no BLOCKED or ERROR.                                                *)
(***************************************************************************)
C8_FullDelivery ==
    (pc = "done" /\ upstream = "ended" /\ ~HarmfulSeen) =>
        /\ SafeText(events) = consumed
        /\ TagPositions({"DIAGNOSTICS"}) = {Len(events)}
        /\ TagPositions({"BLOCKED", "ERROR"}) = {}
        /\ Len(events) = Len(calls) + 1

(***************************************************************************)
(* What a check_guardrail call was given.                                  *)
(***************************************************************************)
\* The answers that are not a JSON object: not JSON at all, or another value.
NonObjectAnswers == {AnswerProse, AnswerTruncated, AnswerList, AnswerNull}

CollaboratorFailed ==
    \/ cg_input.retrieval.raises
    \/ cg_input.generation.raises
    \/ cg_input.generation.text \in NonObjectAnswers

VerdictFields == {"decision", "reason", "source_files", "elapsed_time", "source_documents"}

(***************************************************************************)
(* C9  check_guardrail never propagates an error: whatever retrieval and   *)
(* generation do, the call returns a dict, and when retrieval raised,      *)
(* generation raised or timed out, or the answer was not a JSON object,    *)
(* the decision of that dict is ERROR.                                     *)
(***************************************************************************)
C9_NeverPropagates ==
    cg_pc # "idle" =>
        /\ cg_pc = "returned"
        /\ ~cg_outcome.raised
        /\ CollaboratorFailed =>
              /\ "decision" \in DOMAIN cg_outcome.value
              /\ cg_outcome.value["decision"] = "ERROR"

\* A call whose retrieval succeeded and whose answer parsed, to a JSON list.
C9_Witness ==
    /\ cg_pc = "returned"
    /\ ~cg_input.retrieval.raises /\ cg_input.retrieval.docs # <<>>
    /\ ~cg_input.generation.raises /\ cg_input.generation.text = AnswerList
    /\ cg_outcome.value["decision"] = "ERROR"

(***************************************************************************)
(* C10  Every dict check_guardrail returns, on the success path and on     *)
(* each failure path, holds the five fields decision, reason,              *)
(* source_files, elapsed_time and source_documents.                        *)
(***************************************************************************)
C10_AllFieldsPopulated ==
    cg_pc = "returned" => VerdictFields \subseteq DOMAIN cg_outcome.value

(***************************************************************************)
(* C11  The source_documents of the returned dict are the documents the    *)
(* retrieval step of that call returned, whatever the decision: empty      *)
(* only when there are none or retrieval raised, and still the retrieved   *)
(* documents when generation raised or the answer did not parse.           *)
(***************************************************************************)
C11_SourceDocumentsAreRetrieved ==
    cg_pc = "returned" =>
        /\ "source_documents" \in DOMAIN cg_outcome.value
        /\ cg_outcome.value["source_documents"] =
              (IF cg_input.retrieval.raises THEN <<>> ELSE cg_input.retrieval.docs)

(***************************************************************************)
(* C12  The decision of every returned dict is one of SAFE, HARMFUL,       *)
(* CANNOT_DETERMINE and ERROR, whatever text the generation service        *)
(* answered.                                                               *)
(***************************************************************************)
Decisions == {"SAFE", "HARMFUL", "CANNOT_DETERMINE", "ERROR"}

C12_DecisionInClosedSet ==
    cg_pc = "returned" =>
        /\ "decision" \in DOMAIN cg_outcome.value
        /\ cg_outcome.value["decision"] \in Decisions

(***************************************************************************)
(* C13  When pulling from the upstream raises, before any window, between  *)
(* windows or after SAFE_CHUNKs, the generator yields ERROR and then       *)
(* DIAGNOSTICS and returns; the DIAGNOSTICS payload holds all that the     *)
(* check_guardrail calls made before the failure returned, and the         *)
(* exception stays inside the generator.                                   *)
(***************************************************************************)
C13_UpstreamFailureReported ==
    upstream = "raised" =>
        /\ pc \in {"except", "diagnostics", "done"}
        /\ Cardinality(TagPositions({"ERROR"})) = 1
        /\ pc = "except" => events[Len(events)].tag = "ERROR"
        /\ pc \in {"diagnostics", "done"} =>
              /\ Len(events) >= 2
              /\ events[Len(events) - 1].tag = "ERROR"
              /\ events[Len(events)].tag = "DIAGNOSTICS"
              /\ LET payload == events[Len(events)].payload IN
                    /\ payload.elapsed_time = returned.elapsed_time
                    /\ payload.source_documents = returned.source_documents
                    /\ Range(payload.source_files) = returned.source_files

\* The upstream raised between windows: a SAFE_CHUNK was out, documents and
\* files had been merged, and text pulled before was still buffered.
C13_Witness ==
    /\ pc = "done" /\ upstream = "raised"
    /\ Emitted("SAFE_CHUNK")
    /\ buffer # <<>>
    /\ returned.source_documents # <<>>
    /\ returned.source_files # {}

(***************************************************************************)
(* C14  The DIAGNOSTICS payload is the aggregate over the check_guardrail  *)
(* calls of the run, a HARMFUL one included: elapsed_time is the sum of    *)
(* theirs, source_documents their lists one after the other in call order  *)
(* with repeated documents kept, source_files the union, as a set, of the  *)
(* files they cite.                                                        *)
(***************************************************************************)
C14_DiagnosticsAggregate ==
    \A i \in TagPositions({"DIAGNOSTICS"}) :
        LET payload == events[i].payload IN
        /\ payload.elapsed_time = returned.elapsed_time
        /\ payload.source_documents = returned.source_documents
        /\ Range(payload.source_files) = returned.cited_files
        /\ Len(payload.source_files) = Cardinality(returned.cited_files)

\* ---- format_source_documents, as observed from its input and its result

\* The storage paths of the call's documents, None among them when a document
\* has none.
InputKeys == {StorageKey(fmt_input.documents[i]) : i \in DOMAIN fmt_input.documents}

\* The last document of the input filed under a key.
LastSeen(key) ==
    fmt_input.documents[
        CHOOSE i \in DOMAIN fmt_input.documents :
           /\ StorageKey(fmt_input.documents[i]) = key
           /\ \A j \in DOMAIN fmt_input.documents :
                 StorageKey(fmt_input.documents[j]) = key => j <= i]

\* The documents left once each key is kept once: in the order in which the
\* keys first come, each key standing for its last document.
Deduplicated ==
    LET firsts == SelectSeq(fmt_input.documents,
                     LAMBDA d : \E i \in DOMAIN fmt_input.documents :
                        /\ fmt_input.documents[i] = d
                        /\ \A j \in 1..(i - 1) :
                              StorageKey(fmt_input.documents[j]) # StorageKey(d))
        once == SelectSeq([n \in DOMAIN firsts |-> n],
                     LAMBDA n : \A m \in 1..(n - 1) :
                        StorageKey(firsts[m]) # StorageKey(firsts[n]))
    IN [n \in DOMAIN once |-> LastSeen(StorageKey(firsts[once[n]]))]

\* The text shown for a document, by which an entry of the result is told.
ShownContent(doc) == Strip(Replace(doc.page_content, "\n", " "))
ContentsOf(entries) == [n \in DOMAIN entries |-> entries[n].full_content]

CitedGiven == Truthy(fmt_input.source_files_filter)

\* A document is accepted as cited when, for some cited name, the similarity
\* of the two normalised names is at least 0.35 or they share a token.
AcceptedAsCited(doc) ==
    LET norm_file == normalize_filename(SplitextRoot(FileName(doc)))
        cited == fmt_input.source_files_filter[1]
    IN \E n \in DOMAIN cited :
          LET norm_cited == normalize_filename(cited[n])
              similarity == ratio(norm_file, norm_cited)
          IN \/ 100 * similarity[1] >= 35 * similarity[2]
             \/ token_set(norm_file) \cap token_set(norm_cited) # {}

\* A document with no name in its metadata whose storage path does not decode.
Unresolvable(doc) ==
    /\ "metadata_storage_name" \notin DOMAIN doc.metadata
    /\ StorageKey(doc) \in {Some(PathBadLength), Some(PathNotUtf8)}

(***************************************************************************)
(* C15  Fail-open: when cited names are given and no document is accepted  *)
(* as cited, the call returns every document of the deduplicated set, not  *)
(* an empty list.                                                          *)
(***************************************************************************)
C15_FailOpenShowsAll ==
    (/\ fmt_pc # "idle"
     /\ CitedGiven
     /\ \A n \in DOMAIN Deduplicated : ~AcceptedAsCited(Deduplicated[n]))
    => /\ fmt_pc = "returned"
       /\ ContentsOf(fmt_outcome.value) =
             [n \in DOMAIN Deduplicated |-> ShownContent(Deduplicated[n])]

(***************************************************************************)
(* C16  A document with no name and a storage path that cannot be decoded  *)
(* does not make the call fail: the call returns, and the entry of that    *)
(* document has the raw storage path with the parsing-failed mark as its   *)
(* file name, with a filter, without one and on the fail-open path alike.  *)
(***************************************************************************)
C16_UnresolvedNameShown ==
    (/\ fmt_pc # "idle"
     /\ \E n \in DOMAIN Deduplicated : Unresolvable(Deduplicated[n]))
    => /\ fmt_pc = "returned"
       /\ \A n \in DOMAIN Deduplicated, e \in DOMAIN fmt_outcome.value :
             (/\ Unresolvable(Deduplicated[n])
              /\ fmt_outcome.value[e].full_content = ShownContent(Deduplicated[n]))
             => fmt_outcome.value[e].file_name =
                   Deduplicated[n].metadata["metadata_storage_path"] \o ParsingFailed

(***************************************************************************)
(* C17  The result holds at most one entry for each distinct storage path  *)
(* of the input, that of the last document seen with the path; when no     *)
(* cited names are given it holds exactly one entry for every distinct     *)
(* storage path.                                                           *)
(***************************************************************************)
C17_OneEntryPerStoragePath ==
    fmt_pc = "returned" =>
        LET entries == fmt_outcome.value IN
        /\ \A e \in DOMAIN entries :
              \E key \in InputKeys : entries[e].full_content = ShownContent(LastSeen(key))
        /\ \A e, f \in DOMAIN entries :
              entries[e].full_content = entries[f].full_content => e = f
        /\ ~CitedGiven => Len(entries) = Cardinality(InputKeys)

\* Two documents of one storage path with another between them, no cited
\* names: two entries, the first the later document of the repeated path.
C17_Witness ==
    /\ fmt_pc = "returned"
    /\ fmt_input.documents = <<DocPolicyA, DocPolicyB, DocPolicyARevised>>
    /\ fmt_input.source_files_filter = None
    /\ Len(fmt_outcome.value) = 2
    /\ fmt_outcome.value[1].full_content = <<"A", "2">>
    /\ Len(fmt_outcome.value[2].preview) = 253

(***************************************************************************)
(* C18  When cited names are given and at least one document is accepted   *)
(* as cited, the result is exactly the deduplicated documents that are     *)
(* accepted, a document being accepted when for at least one cited name    *)
(* the similarity of the normalised names is at least 0.35 or the names    *)
(* share at least one token.                                               *)
(***************************************************************************)
C18_AcceptedDocumentsShown ==
    (/\ fmt_pc # "idle"
     /\ CitedGiven
     /\ \E n \in DOMAIN Deduplicated : AcceptedAsCited(Deduplicated[n]))
    => /\ fmt_pc = "returned"
       /\ ContentsOf(fmt_outcome.value) =
             LET accepted == SelectSeq(Deduplicated, AcceptedAsCited)
             IN [n \in DOMAIN accepted |-> ShownContent(accepted[n])]

\* policy_a.txt cited: policy_b.txt, a name close to it, is shown; the document
\* named after its URL and the unresolved one are not.
C18_Witness ==
    /\ fmt_pc = "returned"
    /\ fmt_input.source_files_filter = Some(<<NamePolicyA>>)
    /\ \E n \in DOMAIN fmt_input.documents : fmt_input.documents[n] = DocUrl
    /\ \E n \in DOMAIN fmt_input.documents : fmt_input.documents[n] = DocBadLength
    /\ \E n \in DOMAIN fmt_input.documents : fmt_input.documents[n] = DocPolicyB
    /\ Len(fmt_outcome.value) = 1
    /\ fmt_outcome.value[1].file_name = NamePolicyB

\* ---- limit_docs_with_metadata, as observed from its input and its result

\* The budget in force: max_tokens, or the configured value when it is None.
Budget ==
    IF lim_input.max_tokens = None THEN lim_input.config_max_tokens
    ELSE lim_input.max_tokens[1]

\* The token cost of the first m documents of the input.
RECURSIVE PrefixCost(_)
PrefixCost(m) ==
    IF m = 0 THEN 0
    ELSE PrefixCost(m - 1)
         + (IF Len(lim_input.docs[m].page_content) < 3 THEN 1
            ELSE Len(lim_input.docs[m].page_content) \div 3)

\* The number of leading documents that fit the budget together.
FittingPrefix ==
    CHOOSE m \in 0..Len(lim_input.docs) :
       /\ PrefixCost(m) <= Budget
       /\ \A k \in (m + 1)..Len(lim_input.docs) : PrefixCost(k) > Budget

\* The contents of the first m documents, each after a blank line.
RECURSIVE WholeContents(_)
WholeContents(m) ==
    IF m = 0 THEN <<>>
    ELSE WholeContents(m - 1) \o <<"\n", "\n">> \o lim_input.docs[m].page_content

\* The characters the budget leaves after the fitting prefix.
CharsLeft == 3 * (Budget - PrefixCost(FittingPrefix))

(***************************************************************************)
(* C19  As claimed: for every ranked list and every budget the combined    *)
(* text is at most budget * 3 characters long, plus an overrun of at most  *)
(* 100 characters.                                                         *)
(***************************************************************************)
C19_WithinBudgetPlusHundred ==
    lim_pc = "returned" => Len(lim_result.combined_text) <= Budget * 3 + 100

(***************************************************************************)
(* C19, amended: for every ranked list and every budget of zero or more    *)
(* the combined text is at most budget * 3 characters long plus four       *)
(* characters for each document of the list, which is within               *)
(* budget * 3 + 100 for lists of up to 25 documents.                       *)
(***************************************************************************)
C19_WithinBudgetPlusFourEach ==
    lim_pc = "returned" =>
        /\ Len(lim_result.combined_text) <= Budget * 3 + 4 * Len(lim_input.docs)
        /\ Len(lim_input.docs) <= 25 =>
              Len(lim_result.combined_text) <= Budget * 3 + 100

\* A text longer than budget * 3: two documents of one token and five
\* characters each, then 105 characters of a third, with a budget of 37 tokens.
C19_Witness ==
    /\ lim_pc = "returned"
    /\ lim_input.docs = <<DocShort, DocShort, DocLong>>
    /\ Budget = 37
    /\ Len(lim_result.combined_text) = 122
    /\ Len(lim_result.combined_text) > Budget * 3

(***************************************************************************)
(* C20  The documents of the result are the input list unchanged.  The     *)
(* combined text is made of the whole contents of the leading documents    *)
(* that fit the budget together, then of a truncated head of the next      *)
(* document only when the budget left is worth more than 100 characters;   *)
(* no document after the first that does not fit contributes, even one     *)
(* that would fit.  An empty input gives no documents and an empty text.   *)
(***************************************************************************)
C20_ResultShape ==
    lim_pc = "returned" =>
        LET docs == lim_input.docs
            m == FittingPrefix
            head == IF m < Len(docs) /\ CharsLeft > 100
                      THEN <<"\n", "\n">> \o SubSeq(docs[m + 1].page_content, 1, CharsLeft)
                              \o <<".", ".", ".">>
                      ELSE <<>>
        IN /\ lim_result.documents = docs
           /\ lim_result.combined_text = Strip(WholeContents(m) \o head)
           /\ docs = <<>> => lim_result.combined_text = <<>>

\* A short document fits, the long one after it does not and gives a head of
\* 105 characters, and the short document after that one, which would fit, is
\* left out.
C20_Witness ==
    /\ lim_pc = "returned"
    /\ lim_input.docs = <<DocShort, DocLong, DocShort>>
    /\ Budget = 36
    /\ lim_result.documents = lim_input.docs
    /\ Len(lim_result.combined_text) = 5 + 2 + 105 + 3
    /\ lim_result.combined_text[Len(lim_result.combined_text)] = "."

\* ---- further observations of a stream run

\* The windows handed to check_guardrail, one after the other.
RECURSIVE WindowsText(_)
WindowsText(log) ==
    IF log = <<>> THEN <<>> ELSE Head(log).window \o WindowsText(Tail(log))

LastDecision == DictGet(guardrail_result, "decision", "")

(***************************************************************************)
(* C25  When the generator asks the upstream for the next fragment no full *)
(* window is pending: the buffer is shorter than INITIAL_BUFFER_SIZE if no *)
(* window has been checked yet in the run, and shorter than                *)
(* SUBSEQUENT_BUFFER_SIZE otherwise.                                       *)
(***************************************************************************)
C25_NoFullWindowAtPull ==
    pc = "pull" =>
        Len(buffer) < (IF calls = <<>> THEN INITIAL_BUFFER_SIZE
                       ELSE SUBSEQUENT_BUFFER_SIZE)

(***************************************************************************)
(* C26  A window for which check_guardrail returns decision ERROR is not   *)
(* held back: it is yielded as SAFE_CHUNK, no ERROR event is yielded for   *)
(* it, and the run goes on with the next window.                           *)
(***************************************************************************)
C26_ErrorVerdictPassesThrough ==
    [][(calls' # calls /\ LastDecision' = "ERROR") =>
          /\ events' = Append(events, Event("SAFE_CHUNK", calls'[Len(calls')].window))
          /\ pc' = IF calls'[Len(calls')].final THEN "final" ELSE "yielded"]_vars

\* After an ERROR verdict on a window of the loop: its text is the last event,
\* no ERROR or BLOCKED was yielded, and the next window is ready.
C26_Witness ==
    /\ pc = "while" /\ LastDecision = "ERROR"
    /\ Len(calls) = 1
    /\ events = <<Event("SAFE_CHUNK", calls[1].window)>>
    /\ WindowReady

(***************************************************************************)
(* C27  Each window is checked once: the windows handed to check_guardrail *)
(* follow one another in the upstream text, so that no character is in two *)
(* of them and none is handed over again after a HARMFUL or ERROR verdict, *)
(* and there are as many calls as SAFE_CHUNK and BLOCKED events together.  *)
(***************************************************************************)
C27_EachWindowOnce ==
    /\ IsPrefix(WindowsText(calls), consumed)
    /\ Len(calls) = Cardinality(TagPositions({"SAFE_CHUNK", "BLOCKED"}))

(***************************************************************************)
(* C29  When the upstream raises, the text still in the buffer is dropped: *)
(* it is in no window handed to check_guardrail and in no SAFE_CHUNK, and  *)
(* no call is made after the failure.                                      *)
(***************************************************************************)
C29_BufferDroppedOnFailure ==
    upstream = "raised" =>
        /\ consumed = WindowsText(calls) \o buffer
        /\ IsPrefix(SafeText(events), WindowsText(calls))
        /\ \A i \in DOMAIN calls : ~calls[i].final
        /\ \A i \in TagPositions({"SAFE_CHUNK", "BLOCKED"}) :
              \E e \in TagPositions({"ERROR"}) : i < e

\* The upstream raised with two characters buffered after a window had passed.
C29_Witness ==
    /\ pc = "done" /\ upstream = "raised"
    /\ Len(buffer) = 2
    /\ Len(calls) = 1
    /\ Emitted("SAFE_CHUNK")

(***************************************************************************)
(* C28  A run that is consumed to the end terminates: for every upstream   *)
(* of finitely many fragments and positive thresholds the generator comes  *)
(* to rest after a last DIAGNOSTICS event (which follows BLOCKED, ERROR or *)
(* the end of the stream): it has returned, or, after BLOCKED or ERROR,    *)
(* the loop that consumes it has left it closed.  It has yielded finitely  *)
(* many events and made no more calls to check_guardrail than there are    *)
(* characters, hence windows of at least one character, in the text it     *)
(* consumed.                                                               *)
(***************************************************************************)
C28_Terminates ==
    <>[](/\ pc = (IF ConsumerBlocked THEN "cancelled" ELSE "done")
         /\ events # <<>> /\ events[Len(events)].tag = "DIAGNOSTICS"
         /\ Len(events) <= Len(calls) + 2
         /\ Len(calls) <= Len(consumed))

\* A run over the longest text that ended with the upstream, after one call for
\* every character.
C28_Witness ==
    /\ pc = "done" /\ upstream = "ended"
    /\ Len(consumed) = MaxText
    /\ Len(calls) = Len(consumed)
    /\ ~HarmfulSeen

\* The documents of the input that have no storage path, by position.
Pathless ==
    {i \in DOMAIN fmt_input.documents :
        "metadata_storage_path" \notin DOMAIN fmt_input.documents[i].metadata}

\* The last of them.
LastPathless ==
    fmt_input.documents[CHOOSE i \in Pathless : \A j \in Pathless : j <= i]

\* The entries of the result made from a document without a storage path.
PathlessEntries ==
    {e \in DOMAIN fmt_outcome.value :
        \E i \in Pathless :
            fmt_outcome.value[e].full_content = ShownContent(fmt_input.documents[i])}

(***************************************************************************)
(* C30  Documents without a storage path share one identity: of several in *)
(* the input only the last is kept, so that the result holds at most one   *)
(* entry for all of them, whatever their names and contents.               *)
(***************************************************************************)
C30_PathlessDocumentsShareOneEntry ==
    (fmt_pc = "returned" /\ Cardinality(Pathless) >= 2) =>
        /\ Cardinality(PathlessEntries) <= 1
        /\ \A e \in PathlessEntries :
              fmt_outcome.value[e].full_content = ShownContent(LastPathless)

\* A named and a nameless document without a path, a document with a path
\* between them, no cited names: two entries, the pathless one the later.
C30_Witness ==
    /\ fmt_pc = "returned"
    /\ fmt_input.documents = <<DocPolicyC, DocPolicyB, DocBare>>
    /\ fmt_input.source_files_filter = None
    /\ Len(fmt_outcome.value) = 2
    /\ PathlessEntries = {1}
    /\ fmt_outcome.value[1].full_content = <<"N">>

(***************************************************************************)
(* C22  Cancellation: once the consumer has stopped consuming, no further  *)
(* call to check_guardrail is made, no further fragment is taken from the  *)
(* upstream, and the upstream stream is no longer open.                    *)
(***************************************************************************)
C22_CancellationReleasesUpstream ==
    /\ [][pc = "cancelled" => (calls' = calls /\ consumed' = consumed)]_vars
    /\ [](pc = "cancelled" => upstream # "open")

\* ---- observations of the handling of an input

InputDecision == DictGet(input_check, "decision", "")

\* The run of main() on an input is over: it came to line 397, or an
\* exception left it.
InputHandled == main_pc \in {"done", "raised"}

(***************************************************************************)
(* C23  Input gating: a reply is requested from the generation service     *)
(* only after check_guardrail has returned its verdict on the input, and   *)
(* never when the verdict is HARMFUL or ERROR; the handling of a HARMFUL   *)
(* input ends with the blocked-content message that carries the verdict's  *)
(* reason.                                                                 *)
(***************************************************************************)
C23_InputGating ==
    /\ llm_stream => (input_check # <<>> /\ InputDecision \notin {"HARMFUL", "ERROR"})
    /\ (InputHandled /\ InputDecision = "HARMFUL") =>
          /\ ~llm_stream
          /\ messages[Len(messages)] = WarningMessage(input_check)

(***************************************************************************)
(* C24  CANNOT_DETERMINE passes as SAFE does and is never held back.  A    *)
(* window of a reply with that verdict is yielded as SAFE_CHUNK and the    *)
(* run goes on; an input of the client with that verdict goes on to the    *)
(* request for a reply.                                                    *)
(***************************************************************************)
C24_CannotDeterminePassesEverywhere ==
    /\ [][(calls' # calls /\ LastDecision' = "CANNOT_DETERMINE") =>
            /\ events' = Append(events, Event("SAFE_CHUNK", calls'[Len(calls')].window))
            /\ pc' = IF calls'[Len(calls')].final THEN "final" ELSE "yielded"]_vars
    /\ [][(main_pc = "branch" /\ main_pc' # "branch"
              /\ InputDecision = "CANNOT_DETERMINE") =>
            llm_stream']_vars

\* ---- observations of two interleaved runs

\* The locals of generator r while the two are interleaved.
FrameOf(r) == IF run = r THEN Frame ELSE suspended

\* The events of a frame, the source_files of a DIAGNOSTICS payload taken as
\* the set they list (list(set) gives them in an order Python does not fix).
Yielded(frame) ==
    [i \in DOMAIN frame.events |->
        IF frame.events[i].tag = "DIAGNOSTICS"
          THEN [frame.events[i] EXCEPT !.payload.source_files = Range(@)]
          ELSE frame.events[i]]

(***************************************************************************)
(* C21  Two runs of the stream filter over their own upstreams, resumed in *)
(* any order, share nothing that changes: at every point each has yielded  *)
(* a prefix of the events it yields when run alone over the same fragments *)
(* with the same verdict for each window, and when it has returned it has  *)
(* yielded exactly those events, DIAGNOSTICS included, and left the same   *)
(* locals.                                                                 *)
(***************************************************************************)
C21_RunsIndependent ==
    Len(solo) = 2 =>
        \A r \in {1, 2} :
            /\ IsPrefix(Yielded(FrameOf(r)), Yielded(solo[r]))
            /\ FrameOf(r).pc = "done" =>
                  [FrameOf(r) EXCEPT !.events = Yielded(FrameOf(r))]
                      = [solo[r] EXCEPT !.events = Yielded(solo[r])]

\* The second run has returned after two or more events while the first,
\* begun before it, waits in check_guardrail for the verdict on its first
\* window, with text left in its buffer and all of its events to come.
C21_Witness ==
    /\ Len(solo) = 2 /\ run = 2
    /\ pc = "done" /\ Len(events) >= 3
    /\ suspended.pc = "check"
    /\ suspended.events = <<>>
    /\ suspended.text_to_check # <<>> /\ suspended.buffer # <<>>
    /\ Len(solo[1].events) >= 3

====
